---- MODULE Spec2Model ----
(***************************************************************************)
(* EasyTTS plugin backend (src/EasyttsPugin/backends/easytts.py): the      *)
(* endpoint pool, the load ranking, the per-endpoint gates and the         *)
(* join / stream / download attempt driven by EasyTTSBackend.execute.      *)
(*                                                                         *)
(* Scheduling: execute is an asyncio coroutine.  Code between two awaits   *)
(* that really suspend (the network calls and the hand-over of the audio)  *)
(* runs without interleaving, so every action below is the code from one   *)
(* suspension point to the next.  Acquiring a free asyncio.Lock does not   *)
(* suspend, and _locks_guard is never held across a suspension point.      *)
(*                                                                         *)
(* Strings are sequences of character codes; an Optional value is the      *)
(* empty sequence (None) or a one-element sequence.                        *)
(***************************************************************************)
EXTENDS Integers, Sequences, FiniteSets, TLC

\* ---------------------------------------------------------------- bounds
NumRequests == 2        \* concurrent execute calls
MaxPool == 2            \* records in easytts.endpoints (orchestration runs)
MaxDepth == 0           \* largest queue_size a probe reports (orchestration runs)
MaxRankPool == 4        \* records in easytts.endpoints (ranking runs)
MaxIdlePool == 3        \* records in easytts.endpoints (idle / busy runs)
MaxCfg == 2             \* records in easytts.endpoints (validation runs)
MaxOut == 3             \* items in output.data (selector runs)
MaxCuts == 2            \* chunk boundaries inside the stream's content
NumGetters == 3         \* concurrent _get_or_create_lock calls (gate table runs)

\* ------------------------------------------------------ program constants
UnknownDepth == 10000
DefaultFnIndex == 3
DefaultTriggerId == 19
MIN_AUDIO_SIZE == 100
HttpOk == 200
SlashChar == 47
NewlineChar == 10
DataPrefixLen == 5
SpaceChar == 32

None == <<>>
Some(v) == <<v>>

Requests == 1..NumRequests
Getters == 1..NumGetters

\* ------------------------------------------------------------ str helpers
RECURSIVE RStrip(_, _)
RStrip(s, c) ==
    IF s # <<>> /\ s[Len(s)] = c THEN RStrip(SubSeq(s, 1, Len(s) - 1), c) ELSE s

RECURSIVE LStrip(_, _)
LStrip(s, c) ==
    IF s # <<>> /\ s[1] = c THEN LStrip(Tail(s), c) ELSE s

Strip(s) == LStrip(RStrip(s, SpaceChar), SpaceChar)

\* Python's str comparison: lexicographic on code points, a prefix is smaller
RECURSIVE StrLess(_, _)
StrLess(a, b) ==
    IF b = <<>> THEN FALSE
    ELSE IF a = <<>> THEN TRUE
    ELSE IF a[1] # b[1] THEN a[1] < b[1]
    ELSE StrLess(Tail(a), Tail(b))

\* "endpoint-{idx}" for the 0-based position idx of the record (idx <= 9)
DefaultName(idx) == <<101, 110, 100, 112, 111, 105, 110, 116, 45, 48 + idx>>

\* ------------------------------------------------- endpoints and the pool
Key(ep) == <<ep.base_url, ep.studio_token, ep.fn_index, ep.trigger_id>>

GetOr(field, default) == IF field = None THEN default ELSE field[1]

IntOr(field, default) ==
    IF field = None \/ field[1] = 0 THEN default ELSE field[1]

MakeEndpoint(item, idx) ==
    LET stripped == Strip(GetOr(item.name, DefaultName(idx)))
    IN  [name         |-> IF stripped = <<>> THEN DefaultName(idx) ELSE stripped,
         base_url     |-> RStrip(GetOr(item.base_url, <<>>), SlashChar),
         studio_token |-> Strip(GetOr(item.studio_token, <<>>)),
         fn_index     |-> IntOr(item.fn_index, DefaultFnIndex),
         trigger_id   |-> IntOr(item.trigger_id, DefaultTriggerId)]

\* mutant: `break` at a record that is not admitted
RECURSIVE LoadFromBreak(_, _)
LoadFromBreak(raw, i) ==
    IF i > Len(raw) THEN <<>>
    ELSE LET item == raw[i]
             ep   == MakeEndpoint(item, i - 1)
         IN  IF item.is_dict /\ ep.base_url # <<>>
             THEN <<ep>> \o LoadFromBreak(raw, i + 1)
             ELSE <<>>

RECURSIVE LoadFrom(_, _)
LoadFrom(raw, i) ==
    IF i > Len(raw) THEN <<>>
    ELSE LET item == raw[i]
             ep   == MakeEndpoint(item, i - 1)
         IN  (IF item.is_dict /\ ep.base_url # <<>> THEN <<ep>> ELSE <<>>)
                \o LoadFrom(raw, i + 1)

LoadEndpoints(raw) == LoadFrom(raw, 1)

\* mutant: `if not ep.base_url and not ep.studio_token`
ValidateConfigBoth(raw) ==
    LET endpoints == LoadEndpoints(raw)
    IN  IF endpoints = <<>> THEN [ok |-> FALSE, err |-> "endpoints_empty"]
        ELSE IF \E i \in 1..Len(endpoints) :
                    endpoints[i].base_url = <<>> /\ endpoints[i].studio_token = <<>>
             THEN [ok |-> FALSE, err |-> "endpoint_incomplete"]
             ELSE [ok |-> TRUE, err |-> ""]

ValidateConfig(raw) ==
    LET endpoints == LoadEndpoints(raw)
    IN  IF endpoints = <<>> THEN [ok |-> FALSE, err |-> "endpoints_empty"]
        ELSE IF \E i \in 1..Len(endpoints) :
                    endpoints[i].base_url = <<>> \/ endpoints[i].studio_token = <<>>
             THEN [ok |-> FALSE, err |-> "endpoint_incomplete"]
             ELSE [ok |-> TRUE, err |-> ""]


\* ----------------------------------------------------------- load prober
\* A probe reply: a network error or timeout, or an HTTP reply whose
\* queue_size is Some(integer) or None (missing or not an integer).
\* mutant: without `if resp.status != 200: return None`
GetQueueSizeAnyStatus(reply) ==
    IF reply.kind = "error" THEN None
    ELSE reply.queue_size

GetQueueSize(reply) ==
    IF reply.kind = "error" THEN None
    ELSE IF reply.status # HttpOk THEN None
    ELSE reply.queue_size

\* mutant: an unknown depth counted as 0
SizeEntryUnknownIdle(i, qs) == [ep |-> i, qs |-> IF qs = None THEN 0 ELSE qs[1]]

\* sizes.append((ep, qs if isinstance(qs, int) else 10_000))
SizeEntry(i, qs) == [ep |-> i, qs |-> IF qs = None THEN UnknownDepth ELSE qs[1]]

\* ----------------------------------------------------------- pool ranker
\* mutant: key=lambda x: x[0].name
SortKeyLessNameOnly(endpoints, x, y) ==
    StrLess(endpoints[x.ep].name, endpoints[y.ep].name)

\* key=lambda x: (x[1], x[0].name), compared as Python compares tuples
SortKeyLess(endpoints, x, y) ==
    \/ x.qs < y.qs
    \/ x.qs = y.qs /\ StrLess(endpoints[x.ep].name, endpoints[y.ep].name)

\* list.sort is stable: an entry goes behind every entry it is not less than
RECURSIVE InsertSorted(_, _, _)
InsertSorted(endpoints, sorted, x) ==
    IF sorted = <<>> THEN <<x>>
    ELSE IF SortKeyLess(endpoints, x, sorted[1]) THEN <<x>> \o sorted
    ELSE <<sorted[1]>> \o InsertSorted(endpoints, Tail(sorted), x)

RECURSIVE SortSizes(_, _)
SortSizes(endpoints, sizes) ==
    IF sizes = <<>> THEN <<>>
    ELSE InsertSorted(endpoints,
                      SortSizes(endpoints, SubSeq(sizes, 1, Len(sizes) - 1)),
                      sizes[Len(sizes)])

\* mutant: qs < busy_threshold
IsIdleStrict(entry, busy_threshold) == entry.qs < busy_threshold

IsIdle(entry, busy_threshold) == entry.qs <= busy_threshold

\* mutant: `return busy + idle`
SortedEndpointsBusyFirst(endpoints, sizes, prefer, busy_threshold) ==
    LET sorted == SortSizes(endpoints, sizes)
        eps(seq) == [i \in 1..Len(seq) |-> seq[i].ep]
        idle == SelectSeq(sorted, LAMBDA e : IsIdle(e, busy_threshold))
        busy == SelectSeq(sorted, LAMBDA e : e.qs > busy_threshold)
    IN  IF ~prefer THEN eps(sorted) ELSE eps(busy) \o eps(idle)

\* the part of _sorted_endpoints after the probes: sort, then idle + busy
SortedEndpoints(endpoints, sizes, prefer, busy_threshold) ==
    LET sorted == SortSizes(endpoints, sizes)
        eps(seq) == [i \in 1..Len(seq) |-> seq[i].ep]
        idle == SelectSeq(sorted, LAMBDA e : IsIdle(e, busy_threshold))
        busy == SelectSeq(sorted, LAMBDA e : e.qs > busy_threshold)
    IN  IF ~prefer THEN eps(sorted) ELSE eps(idle) \o eps(busy)

\* -------------------------------------------------------- output selector
\* A string of the payload is kept as what the code inspects of it:
\*   head : "empty", "tmp" (starts with /tmp/), "api" (starts with
\*          /gradio_api/), "root" (starts with / in another way) or "other"
\*   genie, wav, gradio : contains "genie_", ".wav" (any case), "/tmp/gradio"
\* An item is a dict (orig_name, path, url: Optional strings), a bare string
\* (text) or a value of another type.
EmptyStr == [head |-> "empty", genie |-> FALSE, wav |-> FALSE, gradio |-> FALSE]

StrOr(field) == IF field = None THEN EmptyStr ELSE field[1]

\* score of " ".join(orig_name, path, url) for a dict, of the string itself
ItemScore(item) ==
    LET parts == IF item.type = "dict"
                 THEN {StrOr(item.orig_name), StrOr(item.path), StrOr(item.url)}
                 ELSE {item.text}
    IN  (IF \E p \in parts : p.genie THEN 10 ELSE 0)
        + (IF \E p \in parts : p.wav THEN 2 ELSE 0)
        + (IF \E p \in parts : p.gradio THEN 1 ELSE 0)

\* mutant: `if score > best_score:` only, the first of equal scores is kept
RECURSIVE PickFromFirstWins(_, _, _, _)
PickFromFirstWins(out, idx, best_idx, best_score) ==
    IF idx >= Len(out) THEN best_idx
    ELSE LET item == out[idx + 1]
         IN  IF item.type \notin {"dict", "str"}
             THEN PickFromFirstWins(out, idx + 1, best_idx, best_score)
             ELSE LET score == ItemScore(item)
                  IN  IF score > best_score
                      THEN PickFromFirstWins(out, idx + 1, idx, score)
                      ELSE PickFromFirstWins(out, idx + 1, best_idx, best_score)

\* the loop of _pick_output_audio from 0-based index idx on
RECURSIVE PickFrom(_, _, _, _)
PickFrom(out, idx, best_idx, best_score) ==
    IF idx >= Len(out) THEN best_idx
    ELSE LET item == out[idx + 1]
         IN  IF item.type \notin {"dict", "str"}
             THEN PickFrom(out, idx + 1, best_idx, best_score)
             ELSE LET score == ItemScore(item)
                  IN  IF score > best_score \/ (score = best_score /\ idx > best_idx)
                      THEN PickFrom(out, idx + 1, idx, score)
                      ELSE PickFrom(out, idx + 1, best_idx, best_score)

\* mutant: `return out[best_idx] if best_idx >= 0 else out[0]`
PickOutputAudioElseFirst(out) ==
    LET best_idx == PickFrom(out, 0, -1, -1)
    IN  IF best_idx >= 0 THEN out[best_idx + 1] ELSE out[1]

PickOutputAudio(out) ==
    LET best_idx == PickFrom(out, 0, -1, -1)
    IN  IF best_idx >= 0 THEN out[best_idx + 1] ELSE out[Len(out)]

\* ----------------------------------------------------- download address
\* A resolved address: the string it was built from and how it was built
\* ("verbatim", "file": {base}/gradio_api/file={s}, "join": {base}{s}).
Address(form, base, s) == [form |-> form, base |-> base, s |-> s]

\* lines 299-308: the address taken from the picked item, or None
PickedUrl(picked, ep) ==
    IF picked.type = "dict"
    THEN IF picked.url # None /\ picked.url[1].head # "empty"
         THEN Some(Address("verbatim", <<>>, picked.url[1]))
         ELSE IF picked.path # None /\ picked.path[1].head = "tmp"
              THEN Some(Address("file", ep.base_url, picked.path[1]))
              ELSE IF picked.path # None /\ picked.path[1].head \in {"root", "api"}
                   THEN Some(Address("join", ep.base_url, picked.path[1]))
                   ELSE None
    ELSE IF picked.type = "str" /\ picked.text.head # "empty"
         THEN Some(Address("verbatim", <<>>, picked.text))
         ELSE None

\* lines 315-316: a root-relative address is joined to the base address
FinalUrl(url, ep) ==
    IF url.form = "verbatim" /\ url.s.head \in {"tmp", "root", "api"}
    THEN Address("join", ep.base_url, url.s)
    ELSE url


\* ------------------------------------------------------------ event stream
\* A decoded line of the stream: "skip" (no data: prefix, empty payload or a
\* payload that does not decode), "nondict" (a JSON value without .get) or
\* "event" (a JSON object with msg, success and output.data).
\* mutant: the loop without `if not evt.get("success", True): raise`
RECURSIVE ReadLinesSuccessIgnored(_, _)
ReadLinesSuccessIgnored(lines, ep) ==
    IF lines = <<>> THEN [status |-> "more", diag |-> "", url |-> None, rest |-> <<>>]
    ELSE LET line == lines[1]
         IN  IF line.kind = "skip" THEN ReadLinesSuccessIgnored(Tail(lines), ep)
             ELSE IF line.kind = "nondict"
             THEN [status |-> "raise", diag |-> "attribute_error", url |-> None, rest |-> <<>>]
             ELSE IF line.msg # "process_completed"
             THEN ReadLinesSuccessIgnored(Tail(lines), ep)
             ELSE IF line.out = <<>>
             THEN [status |-> "raise", diag |-> "output_empty", url |-> None, rest |-> <<>>]
             ELSE [status |-> "break", diag |-> "",
                   url |-> PickedUrl(PickOutputAudio(line.out), ep), rest |-> Tail(lines)]

\* lines 279-309: the while loop over the buffered lines
RECURSIVE ReadLines(_, _)
ReadLines(lines, ep) ==
    IF lines = <<>> THEN [status |-> "more", diag |-> "", url |-> None, rest |-> <<>>]
    ELSE LET line == lines[1]
         IN  IF line.kind = "skip" THEN ReadLines(Tail(lines), ep)
             ELSE IF line.kind = "nondict"
             THEN [status |-> "raise", diag |-> "attribute_error", url |-> None, rest |-> <<>>]
             ELSE IF line.msg # "process_completed" THEN ReadLines(Tail(lines), ep)
             ELSE IF ~line.success
             THEN [status |-> "raise", diag |-> "success_false", url |-> None, rest |-> <<>>]
             ELSE IF line.out = <<>>
             THEN [status |-> "raise", diag |-> "output_empty", url |-> None, rest |-> <<>>]
             ELSE [status |-> "break", diag |-> "",
                   url |-> PickedUrl(PickOutputAudio(line.out), ep), rest |-> Tail(lines)]

\* lines 274-314: the loop over the chunks; a chunk is the lines it completes
RECURSIVE ReadChunks(_, _, _, _)
ReadChunks(chunks, buffer, ends, ep) ==
    IF chunks = <<>>
    THEN IF ends = "error" THEN [status |-> "raise", diag |-> "io_error", url |-> None]
         ELSE [status |-> "raise", diag |-> "no_audio_url", url |-> None]
    ELSE LET got == ReadLines(buffer \o chunks[1], ep)
         IN  IF got.status = "raise"
             THEN [status |-> "raise", diag |-> got.diag, url |-> None]
             ELSE IF got.status = "break" /\ got.url # None
             THEN [status |-> "url", diag |-> "", url |-> Some(FinalUrl(got.url[1], ep))]
             ELSE ReadChunks(Tail(chunks), got.rest, ends, ep)

\* ------------------------------------------------ download and hand-over
\* TTSFileManager.validate_audio_data on a payload of the given length
\* mutant: `if len(data) <= min_size`
ValidateAudioDataStrict(length) == length > MIN_AUDIO_SIZE

ValidateAudioData(length) == length >= MIN_AUDIO_SIZE

\* TTSBackendBase.send_audio on a valid payload: "sent" (TTSResult(True)),
\* "refused" (TTSResult(False)) or "raised" (the exception leaves send_audio)
SendAudio(env) ==
    IF env.use_base64
    THEN IF ~env.has_sender THEN "refused"
         ELSE IF env.send_raises THEN "raised" ELSE "sent"
    ELSE IF ~env.write_ok THEN "refused"
         ELSE IF ~env.has_sender THEN "refused"
         ELSE IF env.send_raises THEN "raised" ELSE "sent"

\* ------------------------------------------------------------------ state
VARIABLES
    config,          \* easytts.endpoints, as configured
    prefer_idle,     \* easytts.prefer_idle_endpoint
    busy_threshold,  \* easytts.busy_queue_threshold
    endpoint_locks,  \* EasyTTSBackend._endpoint_locks: key -> holder (0: free)
    pc,              \* where each execute call is suspended
    endpoints,       \* execute: endpoints
    sizes,           \* _sorted_endpoints: sizes
    ordered,         \* execute: ordered
    idx,             \* execute: position of ep in ordered
    last_error,      \* execute: last_error
    audio_url,       \* _synthesize_on_endpoint: audio_url
    result,          \* the TTSResult execute returned
    probed,          \* history: what the probes of this ranking returned so far
    joins,           \* history: pool positions a join was issued to, in order
    skipped,         \* history: pool positions passed over because locked
    failed,          \* history: pool positions whose protocol attempt failed
    got_audio,       \* history: pool positions a valid payload was downloaded from
    sent,            \* history: completed hand-overs of audio to the caller
    pure_in,         \* the arguments of a helper called on its own, or None
    pure_out,        \* what that call returned, or None before it returns
    locks_guard,     \* EasyTTSBackend._locks_guard: its holder (0: free)
    lock_made,       \* which call constructed the Lock stored for each key
    getter           \* _get_or_create_lock called on its own: where each call is

vars == <<config, prefer_idle, busy_threshold, endpoint_locks, pc, endpoints, sizes,
          ordered,
          idx, last_error, audio_url, result, probed, joins, skipped, failed,
          got_audio, sent, pure_in, pure_out, locks_guard, lock_made, getter>>

\* the variables of the _get_or_create_lock calls followed statement by statement
getters == <<locks_guard, lock_made, getter>>

\* the variables of the execute calls
calls == <<config, prefer_idle, busy_threshold, endpoint_locks, pc, endpoints, sizes,
           ordered, idx, last_error, audio_url, result, probed, joins, skipped,
           failed, got_audio, sent>>

\* last_error = f"{ep.name}: {e}": the endpoint's name, and of the text of the
\* exception the stage that raised it ("join", "stream", "download", "send")
NoError == [set |-> FALSE, name |-> <<>>, diag |-> ""]
\* mutant: the except clause does not assign last_error
LastErrorDropped(name, diag) == [set |-> FALSE, name |-> <<>>, diag |-> ""]

LastError(name, diag) == [set |-> TRUE, name |-> name, diag |-> diag]

NotReturned == [returned |-> FALSE, success |-> FALSE, kind |-> "", error |-> NoError]
Returned(success, kind, error) ==
    [returned |-> TRUE, success |-> success, kind |-> kind, error |-> error]

\* ------------------------------------------------------- concurrency gate
Locked(locks, key) == key \in DOMAIN locks /\ locks[key] # 0

\* _get_or_create_lock: the table with a free lock added for a new key
GetOrCreateLock(locks, key) ==
    [k \in DOMAIN locks \cup {key} |-> IF k \in DOMAIN locks THEN locks[k] ELSE 0]

\* mutant: the loop without `if lock.locked(): continue`
FirstFreeNoCheck(pool, ord, i, locks) == i

\* mutant: `if not lock.locked(): continue`
RECURSIVE FirstFreeInverted(_, _, _, _)
FirstFreeInverted(pool, ord, i, locks) ==
    IF i > Len(ord) THEN i
    ELSE IF ~Locked(locks, Key(pool[ord[i]]))
         THEN FirstFreeInverted(pool, ord, i + 1, locks)
         ELSE i

\* lines 353-356: the first position from i on whose lock is not locked
RECURSIVE FirstFree(_, _, _, _)
FirstFree(pool, ord, i, locks) ==
    IF i > Len(ord) THEN i
    ELSE IF Locked(locks, Key(pool[ord[i]])) THEN FirstFree(pool, ord, i + 1, locks)
    ELSE i

\* the table after _get_or_create_lock for positions from..upto of ord
RECURSIVE CreateLocks(_, _, _, _, _)
CreateLocks(pool, ord, from, upto, locks) ==
    IF from > upto THEN locks
    ELSE CreateLocks(pool, ord, from + 1, upto,
                     GetOrCreateLock(locks, Key(pool[ord[from]])))

\* ------------------------------------------------------ pool orchestrator
\* lines 353-373: the for loop from position `from` on, up to the next
\* suspension point (the join it issues) or to the return after the loop
ContinueLoop(r, ord, from, error, locks) ==
    LET pool == endpoints[r]
        p == FirstFree(pool, ord, from, locks)
        upto == IF p <= Len(ord) THEN p ELSE Len(ord)
        created == CreateLocks(pool, ord, from, upto, locks)
    IN  /\ skipped' = [skipped EXCEPT ![r] = @ \cup {ord[q] : q \in from..(p - 1)}]
        /\ audio_url' = [audio_url EXCEPT ![r] = None]
        /\ sizes' = [sizes EXCEPT ![r] = <<>>]
        /\ probed' = [probed EXCEPT ![r] = <<>>]
        /\ IF p <= Len(ord)
           THEN /\ endpoint_locks' = [created EXCEPT ![Key(pool[ord[p]])] = r]
                /\ pc' = [pc EXCEPT ![r] = "join"]
                /\ endpoints' = endpoints
                /\ ordered' = [ordered EXCEPT ![r] = ord]
                /\ idx' = [idx EXCEPT ![r] = p]
                /\ last_error' = [last_error EXCEPT ![r] = error]
                /\ joins' = [joins EXCEPT ![r] = Append(@, ord[p])]
                /\ result' = result
           ELSE /\ endpoint_locks' = created
                /\ pc' = [pc EXCEPT ![r] = "done"]
                /\ endpoints' = [endpoints EXCEPT ![r] = <<>>]
                /\ ordered' = [ordered EXCEPT ![r] = <<>>]
                /\ idx' = [idx EXCEPT ![r] = 0]
                /\ last_error' = [last_error EXCEPT ![r] = NoError]
                /\ joins' = joins
                /\ result' = [result EXCEPT ![r] = Returned(FALSE, "all_failed", error)]

CurrentEndpoint(r) == endpoints[r][ordered[r][idx[r]]]

\* mutant: the except clause returns the failure instead of `continue`
FailOverReturns(r, diag) ==
    LET ep == CurrentEndpoint(r)
        released == [endpoint_locks EXCEPT ![Key(ep)] = 0]
    IN  ContinueLoop(r, ordered[r], Len(ordered[r]) + 1, LastError(ep.name, diag),
                     released)

\* mutant: the lock is acquired without `async with` and never released
FailOverNoRelease(r, diag) ==
    LET ep == CurrentEndpoint(r)
    IN  ContinueLoop(r, ordered[r], idx[r] + 1, LastError(ep.name, diag),
                     endpoint_locks)

\* mutant: the except clause awaits the lock it already holds and blocks
FailOverBlocks(r, diag) ==
    /\ pc' = [pc EXCEPT ![r] = "blocked"]
    /\ UNCHANGED <<skipped, audio_url, sizes, probed, endpoint_locks, endpoints,
                   ordered, idx, last_error, joins, result>>

\* mutant: `last_error = last_error or f"{ep.name}: {e}"` keeps the first error
FailOverKeepsFirst(r, diag) ==
    LET ep == CurrentEndpoint(r)
        released == [endpoint_locks EXCEPT ![Key(ep)] = 0]
    IN  ContinueLoop(r, ordered[r], idx[r] + 1,
                     IF last_error[r].set THEN last_error[r] ELSE LastError(ep.name, diag),
                     released)

\* mutant: after a failure the loop starts over at the first ranked endpoint
FailOverFromStart(r, diag) ==
    LET ep == CurrentEndpoint(r)
        released == [endpoint_locks EXCEPT ![Key(ep)] = 0]
        from == IF idx[r] = 1 THEN 2 ELSE 1
    IN  ContinueLoop(r, ordered[r], from, LastError(ep.name, diag), released)

\* lines 368-371 and the exit of `async with lock`: record the error, release
\* the lock, go on with the loop
FailOver(r, diag) ==
    LET ep == CurrentEndpoint(r)
        released == [endpoint_locks EXCEPT ![Key(ep)] = 0]
    IN  ContinueLoop(r, ordered[r], idx[r] + 1, LastError(ep.name, diag), released)

\* a failure inside _synthesize_on_endpoint
AttemptFails(r, diag) ==
    /\ FailOver(r, diag)
    /\ failed' = [failed EXCEPT ![r] = @ \cup {ordered[r][idx[r]]}]
    /\ UNCHANGED <<getters, pure_in, pure_out, config, prefer_idle, busy_threshold, got_audio, sent>>

\* mutant: execute without `if not ok: return TTSResult(False, err, ...)`
ExecuteNoValidation(r) ==
    /\ pc[r] = "idle"
    /\ pc' = [pc EXCEPT ![r] = "probe"]
    /\ result' = result
    /\ endpoints' = [endpoints EXCEPT ![r] = LoadEndpoints(config)]
    /\ UNCHANGED <<getters, pure_in, pure_out, config, prefer_idle, busy_threshold, endpoint_locks,
                   sizes, ordered, idx, last_error, audio_url, probed, joins, skipped,
                   failed, got_audio, sent>>

\* execute is called: lines 334-350 up to the first probe
Execute(r) ==
    /\ pc[r] = "idle"
    /\ LET v == ValidateConfig(config)
       IN  IF ~v.ok
           THEN /\ pc' = [pc EXCEPT ![r] = "done"]
                /\ result' = [result EXCEPT ![r] = Returned(FALSE, v.err, NoError)]
                /\ endpoints' = endpoints
           ELSE /\ pc' = [pc EXCEPT ![r] = "probe"]
                /\ result' = result
                /\ endpoints' = [endpoints EXCEPT ![r] = LoadEndpoints(config)]
    /\ UNCHANGED <<getters, pure_in, pure_out, config, prefer_idle, busy_threshold, endpoint_locks, sizes, ordered,
                   idx, last_error, audio_url, probed, joins, skipped, failed,
                   got_audio, sent>>

\* a probe returns: lines 119-120, and after the last probe lines 122-127 and
\* the loop of execute up to its first join
ProbeReply(r, reply) ==
    /\ pc[r] = "probe"
    /\ LET qs == GetQueueSize(reply)
           now == Append(sizes[r], SizeEntry(Len(sizes[r]) + 1, qs))
       IN  IF Len(now) < Len(endpoints[r])
           THEN /\ sizes' = [sizes EXCEPT ![r] = now]
                /\ probed' = [probed EXCEPT ![r] = Append(@, qs)]
                /\ UNCHANGED <<endpoint_locks, pc, endpoints, ordered, idx, last_error,
                               audio_url, result, joins, skipped>>
           ELSE \E ord \in {SortedEndpoints(endpoints[r], now, prefer_idle,
                                            busy_threshold)} :
                    ContinueLoop(r, ord, 1, NoError, endpoint_locks)
    /\ UNCHANGED <<getters, pure_in, pure_out, config, prefer_idle, busy_threshold, failed, got_audio, sent>>

\* the join returns: lines 250-264
\* mutant: the status of the join response is not looked at
JoinReplyAnyStatus(r, reply) ==
    /\ pc[r] = "join"
    /\ IF reply.kind = "error" THEN AttemptFails(r, "join")
       ELSE /\ pc' = [pc EXCEPT ![r] = "stream"]
            /\ UNCHANGED <<getters, pure_in, pure_out, config, prefer_idle, busy_threshold,
                           endpoint_locks, endpoints, sizes, ordered, idx, last_error,
                           audio_url, result, probed, joins, skipped, failed,
                           got_audio, sent>>

JoinReply(r, reply) ==
    /\ pc[r] = "join"
    /\ IF reply.kind = "error" THEN AttemptFails(r, "join")
       ELSE IF reply.status # HttpOk THEN AttemptFails(r, "join")
       ELSE /\ pc' = [pc EXCEPT ![r] = "stream"]
            /\ UNCHANGED <<getters, pure_in, pure_out, config, prefer_idle, busy_threshold, endpoint_locks, endpoints, sizes,
                           ordered, idx, last_error, audio_url, result, probed, joins,
                           skipped, failed, got_audio, sent>>

\* the stream is read to its end: lines 264-318
\* mutant: without `if not audio_url: raise` the download follows a stream
\* that closed without an address
StreamReplyNoUrlCheck(r, reply) ==
    /\ pc[r] = "stream"
    /\ IF reply.kind = "error" THEN AttemptFails(r, "stream")
       ELSE IF reply.status # HttpOk THEN AttemptFails(r, "stream")
       ELSE LET got == ReadChunks(reply.chunks, <<>>, reply.ends, CurrentEndpoint(r))
            IN  IF got.status = "raise" /\ got.diag # "no_audio_url"
                THEN AttemptFails(r, "stream")
                ELSE /\ pc' = [pc EXCEPT ![r] = "download"]
                     /\ audio_url' = [audio_url EXCEPT ![r] = got.url]
                     /\ UNCHANGED <<getters, pure_in, pure_out, config, prefer_idle,
                                    busy_threshold, endpoint_locks, endpoints, sizes,
                                    ordered, idx, last_error, result, probed, joins,
                                    skipped, failed, got_audio, sent>>

StreamReply(r, reply) ==
    /\ pc[r] = "stream"
    /\ IF reply.kind = "error" THEN AttemptFails(r, "stream")
       ELSE IF reply.status # HttpOk THEN AttemptFails(r, "stream")
       ELSE LET got == ReadChunks(reply.chunks, <<>>, reply.ends, CurrentEndpoint(r))
            IN  IF got.status = "raise" THEN AttemptFails(r, "stream")
                ELSE /\ pc' = [pc EXCEPT ![r] = "download"]
                     /\ audio_url' = [audio_url EXCEPT ![r] = got.url]
                     /\ UNCHANGED <<getters, pure_in, pure_out, config, prefer_idle, busy_threshold, endpoint_locks,
                                    endpoints, sizes, ordered, idx, last_error, result, probed,
                                    joins, skipped, failed, got_audio, sent>>

\* the download returns: lines 318-331, then send_audio up to its hand-over
DownloadReply(r, reply) ==
    /\ pc[r] = "download"
    /\ IF reply.kind = "error" THEN AttemptFails(r, "download")
       ELSE IF reply.status # HttpOk THEN AttemptFails(r, "download")
       ELSE IF ~ValidateAudioData(reply.length) THEN AttemptFails(r, "download")
       ELSE /\ pc' = [pc EXCEPT ![r] = "send"]
            /\ got_audio' = [got_audio EXCEPT ![r] = @ \cup {ordered[r][idx[r]]}]
            /\ UNCHANGED <<getters, pure_in, pure_out, config, prefer_idle, busy_threshold, endpoint_locks, endpoints,
                           sizes, ordered, idx, last_error, audio_url, result, probed,
                           joins, skipped, failed, sent>>

\* send_audio ends: line 367 returns its result, or lines 368-371 catch
SendReply(r, env) ==
    /\ pc[r] = "send"
    /\ LET outcome == SendAudio(env)
       IN  IF outcome = "raised"
           THEN /\ FailOver(r, "send")
                /\ UNCHANGED <<failed, sent>>
           ELSE /\ pc' = [pc EXCEPT ![r] = "done"]
                /\ result' = [result EXCEPT ![r] =
                                 IF outcome = "sent" THEN Returned(TRUE, "sent", NoError)
                                 ELSE Returned(FALSE, "send_refused", NoError)]
                /\ endpoint_locks' =
                       [endpoint_locks EXCEPT ![Key(CurrentEndpoint(r))] = 0]
                /\ sent' = [sent EXCEPT ![r] = IF outcome = "sent" THEN @ + 1 ELSE @]
                /\ ordered' = [ordered EXCEPT ![r] = <<>>]
                /\ idx' = [idx EXCEPT ![r] = 0]
                /\ last_error' = [last_error EXCEPT ![r] = NoError]
                /\ audio_url' = [audio_url EXCEPT ![r] = None]
                /\ endpoints' = [endpoints EXCEPT ![r] = <<>>]
                /\ UNCHANGED <<sizes, probed, joins, skipped, failed>>
    /\ UNCHANGED <<getters, pure_in, pure_out, config, prefer_idle, busy_threshold, got_audio>>


\* ------------------------------------------------------ inputs of the runs
Str(head, genie, wav, gradio) ==
    [head |-> head, genie |-> genie, wav |-> wav, gradio |-> gradio]

DictItem(orig_name, path, url) ==
    [type |-> "dict", orig_name |-> orig_name, path |-> path, url |-> url,
     text |-> EmptyStr]
StrItem(text) ==
    [type |-> "str", orig_name |-> None, path |-> None, url |-> None, text |-> text]
OtherItem == [type |-> "other", orig_name |-> None, path |-> None, url |-> None,
              text |-> EmptyStr]

SkipLine == [kind |-> "skip", msg |-> "", success |-> TRUE, out |-> <<>>]
NonDictLine == [kind |-> "nondict", msg |-> "", success |-> TRUE, out |-> <<>>]
Event(msg, success, out) ==
    [kind |-> "event", msg |-> msg, success |-> success, out |-> out]
Completed(success, out) == Event("process_completed", success, out)

RawItem(name, base_url, studio_token) ==
    [is_dict |-> TRUE, name |-> name, base_url |-> Some(base_url),
     studio_token |-> Some(studio_token), fn_index |-> None, trigger_id |-> None]

SeqsUpTo(S, n) == UNION {[1..k -> S] : k \in 0..n}

\* "h/", "i" and the empty address; the token "t" and the empty token
MainUrls == {<<>>, <<104, SlashChar>>, <<105>>}
MainTokens == {<<>>, <<116>>}
MainItems == {RawItem(None, u, t) : u \in MainUrls, t \in MainTokens}
MainConfigs == SeqsUpTo(MainItems, MaxPool)

HttpReply(status, queue_size) ==
    [kind |-> "http", status |-> status, queue_size |-> queue_size]
NetError == [kind |-> "error", status |-> 0, queue_size |-> None]

MainProbeReplies ==
    {NetError, HttpReply(500, Some(0)), HttpReply(HttpOk, None)}
        \cup {HttpReply(HttpOk, Some(d)) : d \in 0..MaxDepth}

JoinReplies == {NetError, HttpReply(500, None), HttpReply(HttpOk, None)}

UrlItem == DictItem(None, None, Some(Str("other", FALSE, FALSE, FALSE)))
TmpItem == DictItem(Some(Str("other", TRUE, TRUE, FALSE)),
                    Some(Str("tmp", TRUE, TRUE, TRUE)), None)
BareItem == DictItem(None, None, None)

StreamReplyOf(status, chunks, ends) ==
    [kind |-> "http", status |-> status, chunks |-> chunks, ends |-> ends]
StreamError == [kind |-> "error", status |-> 0, chunks |-> <<>>, ends |-> "error"]

MainStreams ==
    { <<>>,
      << <<SkipLine, Event("estimation", TRUE, <<>>)>> >>,
      << <<NonDictLine>> >>,
      << <<Completed(FALSE, <<UrlItem>>)>> >>,
      << <<Completed(TRUE, <<>>)>> >>,
      << <<Completed(TRUE, <<BareItem>>)>> >>,
      << <<Completed(TRUE, <<UrlItem>>)>> >>,
      << <<Event("process_starts", TRUE, <<>>)>>, <<Completed(TRUE, <<OtherItem, TmpItem>>)>> >> }

StreamReplies ==
    {StreamError, StreamReplyOf(500, <<>>, "closed")}
        \cup {StreamReplyOf(HttpOk, c, e) : c \in MainStreams, e \in {"closed", "error"}}

DownloadReplyOf(status, length) == [kind |-> "http", status |-> status, length |-> length]
DownloadError == [kind |-> "error", status |-> 0, length |-> 0]

DownloadReplies ==
    {DownloadError, DownloadReplyOf(404, 2000)}
        \cup {DownloadReplyOf(HttpOk, n) :
                 n \in {0, 50, MIN_AUDIO_SIZE - 1, MIN_AUDIO_SIZE, 2000}}

SendEnvs == [use_base64 : BOOLEAN, has_sender : BOOLEAN, write_ok : BOOLEAN,
             send_raises : BOOLEAN]

\* ------------------------------------------------------------ orchestration
InitRequests ==
    /\ endpoint_locks = <<>>
    /\ pc = [r \in Requests |-> "idle"]
    /\ endpoints = [r \in Requests |-> <<>>]
    /\ sizes = [r \in Requests |-> <<>>]
    /\ ordered = [r \in Requests |-> <<>>]
    /\ idx = [r \in Requests |-> 0]
    /\ last_error = [r \in Requests |-> NoError]
    /\ audio_url = [r \in Requests |-> None]
    /\ result = [r \in Requests |-> NotReturned]
    /\ probed = [r \in Requests |-> <<>>]
    /\ joins = [r \in Requests |-> <<>>]
    /\ skipped = [r \in Requests |-> {}]
    /\ failed = [r \in Requests |-> {}]
    /\ got_audio = [r \in Requests |-> {}]
    /\ sent = [r \in Requests |-> 0]
    /\ locks_guard = 0
    /\ lock_made = <<>>
    /\ getter = [g \in Getters |-> [pc |-> "idle", key |-> <<>>, lock |-> 0]]

\* no helper is called on its own
NoHelperCall == pure_in = None /\ pure_out = None

\* no execute call is made
NoExecuteCall == config = <<>> /\ prefer_idle = TRUE /\ busy_threshold = 0 /\ InitRequests

Init ==
    /\ config \in MainConfigs
    /\ prefer_idle = TRUE
    /\ busy_threshold = 0
    /\ InitRequests
    /\ NoHelperCall

Next ==
    \E r \in Requests :
        \/ Execute(r)
        \/ \E reply \in MainProbeReplies : ProbeReply(r, reply)
        \/ \E reply \in JoinReplies : JoinReply(r, reply)
        \/ \E reply \in StreamReplies : StreamReply(r, reply)
        \/ \E reply \in DownloadReplies : DownloadReply(r, reply)
        \/ \E env \in SendEnvs : SendReply(r, env)

Spec == Init /\ [][Next]_vars

\* ------------------------------------------------------------ progress runs
\* The replies of the network stages of call r: each request is sent with a
\* total timeout (status 3 s, join 30 s, stream 300 s, download 120 s by
\* default), so a reply, an error or the timeout arrives.
NetworkStage(r) ==
    \/ \E reply \in MainProbeReplies : ProbeReply(r, reply)
    \/ \E reply \in JoinReplies : JoinReply(r, reply)
    \/ \E reply \in StreamReplies : StreamReply(r, reply)
    \/ \E reply \in DownloadReplies : DownloadReply(r, reply)

\* send_audio of call r ends
HandOver(r) == \E env \in SendEnvs : SendReply(r, env)

\* the calls of Spec, each network stage of each call ending
SpecLive == Init /\ [][Next]_vars /\ \A r \in Requests : WF_vars(NetworkStage(r))

\* ------------------------------------------------------------ ranking runs
\* names "A", "B", ... ; every record has the address "h" and the token "t"
RankNames == {<<64 + i>> : i \in 1..MaxRankPool}
RankItems == {RawItem(Some(n), <<104>>, <<116>>) : n \in RankNames}
RankConfigs == SeqsUpTo(RankItems, MaxRankPool) \ {<<>>}
RankDepths == {2, 5, UnknownDepth + 1}
RankProbeReplies == {NetError} \cup {HttpReply(HttpOk, Some(d)) : d \in RankDepths}

InitRank ==
    /\ config \in RankConfigs
    /\ prefer_idle \in BOOLEAN
    /\ busy_threshold \in {0, 2}
    /\ InitRequests
    /\ NoHelperCall

NextRank ==
    \/ Execute(1)
    \/ \E reply \in RankProbeReplies : ProbeReply(1, reply)

SpecRank == InitRank /\ [][NextRank]_vars

\* ------------------------------------------------- idle / busy partition runs
\* names "A", "B", ... ; depths around the thresholds 0 and 1
IdleNames == {<<64 + i>> : i \in 1..MaxIdlePool}
IdleItems == {RawItem(Some(n), <<104>>, <<116>>) : n \in IdleNames}
IdleConfigs == SeqsUpTo(IdleItems, MaxIdlePool) \ {<<>>}
IdleDepths == {0, 1, 3}
IdleProbeReplies == {NetError} \cup {HttpReply(HttpOk, Some(d)) : d \in IdleDepths}

InitIdle ==
    /\ config \in IdleConfigs
    /\ prefer_idle \in BOOLEAN
    /\ busy_threshold \in {0, 1}
    /\ InitRequests
    /\ NoHelperCall

NextIdle ==
    \/ Execute(1)
    \/ \E reply \in IdleProbeReplies : ProbeReply(1, reply)

SpecIdle == InitIdle /\ [][NextIdle]_vars

\* ------------------------------------------------------------ validation runs
\* records with the address absent, "", "/", "h" or "h/" and the token
\* absent, "", " " or "t", and a record that is not a dict
CfgUrls == {None, Some(<<>>), Some(<<SlashChar>>), Some(<<104>>), Some(<<104, SlashChar>>)}
CfgTokens == {None, Some(<<>>), Some(<<SpaceChar>>), Some(<<116>>)}
NotADict ==
    [is_dict |-> FALSE, name |-> None, base_url |-> None, studio_token |-> None,
     fn_index |-> None, trigger_id |-> None]
CfgItems ==
    {[is_dict |-> TRUE, name |-> None, base_url |-> u, studio_token |-> t,
      fn_index |-> None, trigger_id |-> None] : u \in CfgUrls, t \in CfgTokens}
        \cup {NotADict}
CfgConfigs == SeqsUpTo(CfgItems, MaxCfg)

InitCfg ==
    /\ config \in CfgConfigs
    /\ prefer_idle = TRUE
    /\ busy_threshold = 0
    /\ InitRequests
    /\ NoHelperCall

NextCfg == Execute(1)

SpecCfg == InitCfg /\ [][NextCfg]_vars

\* --------------------------------------------------------------- selector runs
\* _pick_output_audio called on a non-empty list (the caller raises on an
\* empty one, line 296)
GenieTmpWav == StrItem(Str("tmp", TRUE, TRUE, TRUE))     \* "/tmp/gradio/abc/genie_x.wav"
PlainText == StrItem(Str("other", FALSE, FALSE, FALSE))  \* "u"
WavText == StrItem(Str("other", FALSE, TRUE, FALSE))     \* "a.WAV"
SpreadItem == DictItem(Some(Str("other", TRUE, FALSE, FALSE)), None,
                       Some(Str("other", FALSE, TRUE, FALSE)))
GradioItem == DictItem(None, Some(Str("tmp", FALSE, FALSE, TRUE)), None)
\* a second value that is neither a dict nor a string (null)
NullItem == [type |-> "null", orig_name |-> None, path |-> None, url |-> None,
             text |-> EmptyStr]
PickItems ==
    {GenieTmpWav, PlainText, WavText, SpreadItem, GradioItem, UrlItem, BareItem,
     OtherItem, NullItem}

InitPick ==
    /\ pure_in \in {Some(out) : out \in SeqsUpTo(PickItems, MaxOut) \ {<<>>}}
    /\ pure_out = None
    /\ NoExecuteCall

PickReturns ==
    /\ pure_in # None /\ pure_out = None
    /\ pure_out' = Some(PickOutputAudio(pure_in[1]))
    /\ UNCHANGED <<calls, getters, pure_in>>

NextPick == PickReturns

SpecPick == InitPick /\ [][NextPick]_vars

\* ------------------------------------------------------ stream framing runs
\* The stream's content as bytes, read in chunks (lines 274-311). The bytes:
\* newline, space, the letters of "data:", braces, and the two bytes of the
\* character e-acute (195, 169). A JSON document is kept as {body}: it
\* decodes when it opens and closes with a brace and holds none inside, and
\* the first letter of the body tells what the event is:
\*   p  process_completed whose output is [body], a string: the audio url
\*   q  process_completed whose output is [{}]: no url, no path
\*   h  another msg
DataPrefix == <<100, 97, 116, 97, 58>>
Utf8Lead == 195
Utf8Cont == 169
EAcute == 233
OpenBrace == 123
CloseBrace == 125

\* chunk.decode("utf-8", errors="ignore"): bytes that are no complete
\* character inside this chunk are dropped
RECURSIVE DecodeIgnore(_)
DecodeIgnore(bytes) ==
    IF bytes = <<>> THEN <<>>
    ELSE IF bytes[1] < 128 THEN <<bytes[1]>> \o DecodeIgnore(Tail(bytes))
    ELSE IF bytes[1] = Utf8Lead /\ Len(bytes) >= 2 /\ bytes[2] = Utf8Cont
         THEN <<EAcute>> \o DecodeIgnore(Tail(Tail(bytes)))
         ELSE DecodeIgnore(Tail(bytes))

\* position of the first "\n" in s, 0 when there is none
NewlineAt(s) ==
    IF \E i \in 1..Len(s) : s[i] = NewlineChar
    THEN CHOOSE i \in 1..Len(s) :
            s[i] = NewlineChar /\ \A j \in 1..(i - 1) : s[j] # NewlineChar
    ELSE 0

StartsWith(s, prefix) ==
    Len(s) >= Len(prefix) /\ SubSeq(s, 1, Len(prefix)) = prefix

\* json.loads(data_str): None when it raises
JsonLoads(s) ==
    IF /\ Len(s) >= 3 /\ s[1] = OpenBrace /\ s[Len(s)] = CloseBrace
       /\ \A i \in 2..(Len(s) - 1) : s[i] \notin {OpenBrace, CloseBrace}
    THEN Some(SubSeq(s, 2, Len(s) - 1))
    ELSE None

IsCompleted(evt) == evt[1] \in {112, 113}
HasUrl(evt) == evt[1] = 112

\* lines 279-309: the while loop over the lines the buffer holds
RECURSIVE ReadBuffer(_, _)
ReadBuffer(buffer, events) ==
    LET n == NewlineAt(buffer)
    IN  IF n = 0 THEN [buffer |-> buffer, events |-> events, url |-> None]
        ELSE LET line == Strip(SubSeq(buffer, 1, n - 1))
                 rest == SubSeq(buffer, n + 1, Len(buffer))
                 data_str == Strip(SubSeq(line, DataPrefixLen + 1, Len(line)))
                 evt == JsonLoads(data_str)
             IN  IF ~StartsWith(line, DataPrefix) THEN ReadBuffer(rest, events)
                 ELSE IF data_str = <<>> THEN ReadBuffer(rest, events)
                 ELSE IF evt = None THEN ReadBuffer(rest, events)
                 ELSE IF ~IsCompleted(evt[1])
                      THEN ReadBuffer(rest, Append(events, evt[1]))
                      ELSE [buffer |-> rest, events |-> Append(events, evt[1]),
                            url |-> IF HasUrl(evt[1]) THEN evt ELSE None]

\* lines 274-311: the loop over the chunks; the events decoded and the url
RECURSIVE ReadStream(_, _, _)
ReadStream(chunks, buffer, events) ==
    IF chunks = <<>> THEN [events |-> events, url |-> None]
    ELSE IF chunks[1] = <<>> THEN ReadStream(Tail(chunks), buffer, events)
    ELSE LET got == ReadBuffer(buffer \o DecodeIgnore(chunks[1]), events)
         IN  IF got.url # None THEN [events |-> got.events, url |-> got.url]
             ELSE ReadStream(Tail(chunks), got.buffer, got.events)

\* the chunks of content cut after the positions in cuts
RECURSIVE ChunksFrom(_, _, _)
ChunksFrom(content, cuts, start) ==
    IF start > Len(content) THEN <<>>
    ELSE LET later == {c \in cuts : c >= start}
             end == IF later = {} THEN Len(content)
                    ELSE CHOOSE c \in later : \A d \in later : c <= d
         IN  <<SubSeq(content, start, end)>> \o ChunksFrom(content, cuts, end + 1)

RECURSIVE CutSets(_, _)
CutSets(n, k) ==
    IF k = 0 THEN {{}}
    ELSE LET fewer == CutSets(n, k - 1)
         IN  fewer \cup {s \cup {a} : s \in fewer, a \in 1..(n - 1)}

DataLine(body) ==
    DataPrefix \o <<SpaceChar, OpenBrace>> \o body \o <<CloseBrace, NewlineChar>>
\* data: {pé}      one terminal event, its url holding a two-byte character
\* data: {h} / data: {pa}     a heartbeat, then the terminal event
\* data: {q} / data: {pa}     a terminal event without address, then one with
\* : / data: / data: {h / data: {pa}   lines that are skipped, then the event
StreamContents ==
    { DataLine(<<112, Utf8Lead, Utf8Cont>>),
      DataLine(<<104>>) \o DataLine(<<112, 97>>),
      DataLine(<<113>>) \o DataLine(<<112, 97>>),
      <<58, NewlineChar>> \o DataPrefix \o <<NewlineChar>>
          \o DataPrefix \o <<OpenBrace, 104, NewlineChar>> \o DataLine(<<112, 97>>) }

InitFrame ==
    /\ pure_in \in UNION {{Some([content |-> c, cuts |-> k]) :
                              k \in CutSets(Len(c), MaxCuts)} : c \in StreamContents}
    /\ pure_out = None
    /\ NoExecuteCall

ReadReturns ==
    /\ pure_in # None /\ pure_out = None
    /\ pure_out' = Some(ReadStream(ChunksFrom(pure_in[1].content, pure_in[1].cuts, 1),
                                   <<>>, <<>>))
    /\ UNCHANGED <<calls, getters, pure_in>>

NextFrame == ReadReturns

SpecFrame == InitFrame /\ [][NextFrame]_vars

\* ------------------------------------------------ voice and preset resolution
ColonChar == 58

\* position of the first ":" in s, 0 when there is none
ColonAt(s) ==
    IF \E i \in 1..Len(s) : s[i] = ColonChar
    THEN CHOOSE i \in 1..Len(s) : s[i] = ColonChar /\ \A j \in 1..(i - 1) : s[j] # ColonChar
    ELSE 0

\* _parse_voice: character, preset and whether the preset was given
ParseVoice(voice, default_character, default_preset) ==
    LET raw == Strip(IF voice = None THEN <<>> ELSE voice[1])
        c == ColonAt(raw)
        character == Strip(SubSeq(raw, 1, c - 1))
        preset == Strip(SubSeq(raw, c + 1, Len(raw)))
    IN  IF raw = <<>>
        THEN [character |-> default_character, preset |-> default_preset,
              explicit_preset |-> FALSE]
        ELSE IF c # 0
        THEN [character |-> IF character = <<>> THEN default_character ELSE character,
              preset |-> IF preset = <<>> THEN default_preset ELSE preset,
              explicit_preset |-> TRUE]
        ELSE [character |-> raw, preset |-> default_preset, explicit_preset |-> FALSE]

\* the dict comprehension of _load_emotion_map: a configured map is the list
\* of its (key, value) items; items whose key or value strips to "" are left out
RECURSIVE LoadEmotionMap(_)
LoadEmotionMap(raw) ==
    IF raw = <<>> THEN <<>>
    ELSE LET k == Strip(raw[1][1])
             v == Strip(raw[1][2])
         IN  (IF k # <<>> /\ v # <<>> THEN << <<k, v>> >> ELSE <<>>)
                \o LoadEmotionMap(Tail(raw))

InMap(map, key) == \E i \in 1..Len(map) : map[i][1] = key
\* map[key]: the value of the last item with that key
MapGet(map, key) ==
    map[CHOOSE i \in 1..Len(map) :
            map[i][1] = key /\ \A j \in (i + 1)..Len(map) : map[j][1] # key][2]

\* _load_character_emotion_map: the map of the first entry of
\* easytts.characters with that name
RECURSIVE LoadCharacterEmotionMap(_, _)
LoadCharacterEmotionMap(chars, character) ==
    IF chars = <<>> THEN <<>>
    ELSE IF Strip(chars[1].name) # character
         THEN LoadCharacterEmotionMap(Tail(chars), character)
         ELSE LoadEmotionMap(chars[1].emotion_preset_map)

Sad == <<20260, 24515>>
SadWords == {<<38590, 36807>>, <<24754, 20260>>}
Happy == <<24320, 24515>>
HappyWords == {<<39640, 20852>>, <<20852, 22859>>}

\* _resolve_preset_by_emotion
ResolvePresetByEmotion(character, preset, emotion, explicit_preset, chars, emotion_map) ==
    LET emo == Strip(emotion)
        char_map == LoadCharacterEmotionMap(chars, character)
        global_map == LoadEmotionMap(emotion_map)
    IN  IF emo = <<>> \/ explicit_preset THEN preset
        ELSE IF InMap(char_map, emo) THEN MapGet(char_map, emo)
        ELSE IF InMap(global_map, emo) THEN MapGet(global_map, emo)
        ELSE IF InMap(global_map, Sad) /\ emo \in SadWords THEN MapGet(global_map, Sad)
        ELSE IF InMap(global_map, Happy) /\ emo \in HappyWords THEN MapGet(global_map, Happy)
        ELSE preset

\* execute, lines 338-345: the character and preset put into the job payload
ResolveVoice(in) ==
    LET parsed == ParseVoice(in.voice, in.default_character, in.default_preset)
    IN  [character |-> parsed.character,
         preset |-> ResolvePresetByEmotion(parsed.character, parsed.preset, in.emotion,
                                           parsed.explicit_preset, in.characters,
                                           in.emotion_preset_map)]

\* voices: None, "", " ", ":", "n:", ":p", "n:p", "n"; emotions: "", "e" (in
\* the character's map), "g" (in the global map), a sad word, "x" (unknown)
Voices ==
    {None, Some(<<>>), Some(<<SpaceChar>>), Some(<<ColonChar>>), Some(<<110, ColonChar>>),
     Some(<<ColonChar, 112>>), Some(<<110, ColonChar, 112>>), Some(<<110>>)}
Emotions == {<<>>, <<101>>, <<103>>, <<38590, 36807>>, <<120>>}
DefaultCharacters == {<<109>>, <<>>}
DefaultPresets == {<<100>>, <<>>}
EmotionMaps ==
    { <<>>,
      << <<<<103>>, <<71>>>>, <<Sad, <<83>>>> >>,
      << <<<<103>>, <<SpaceChar>>>>, <<<<>>, <<71>>>> >> }
CharacterLists ==
    { <<>>,
      << [name |-> <<110>>, emotion_preset_map |-> << <<<<101>>, <<69>>>> >>] >>,
      << [name |-> <<109>>, emotion_preset_map |-> << <<<<101>>, <<>>>> >>],
         [name |-> <<110, SpaceChar>>, emotion_preset_map |-> << <<<<101>>, <<69>>>> >>] >> }

InitVoice ==
    /\ pure_in \in {Some([voice |-> v, emotion |-> e, default_character |-> dc,
                          default_preset |-> dp, emotion_preset_map |-> m,
                          characters |-> cs]) :
                       v \in Voices, e \in Emotions, dc \in DefaultCharacters,
                       dp \in DefaultPresets, m \in EmotionMaps, cs \in CharacterLists}
    /\ pure_out = None
    /\ NoExecuteCall

ResolveReturns ==
    /\ pure_in # None /\ pure_out = None
    /\ pure_out' = Some(ResolveVoice(pure_in[1]))
    /\ UNCHANGED <<calls, getters, pure_in>>

NextVoice == ResolveReturns

SpecVoice == InitVoice /\ [][NextVoice]_vars


\* ------------------------------------------------------ stream reading runs
\* The loop of _synthesize_on_endpoint over the lines of a stream response
\* (lines 274-316), called on its own for one endpoint.
MaxChunks == 2       \* chunks of a stream
MaxLines == 2        \* lines completed by one chunk

ReadEndpoint == MakeEndpoint(RawItem(None, <<104, SlashChar>>, <<116>>), 0)

\* items the address is derived from: url and path of an object, a bare string
AbsUrl == Str("other", FALSE, FALSE, FALSE)        \* "http://h/a"
RootUrl == Str("root", FALSE, FALSE, FALSE)        \* "/file=a"
TmpPath == Str("tmp", FALSE, TRUE, TRUE)           \* "/tmp/gradio/a.wav"
RootPath == Str("root", FALSE, TRUE, FALSE)        \* "/static/a.wav"
RelPath == Str("other", FALSE, TRUE, FALSE)        \* "a.wav"
AddressItems ==
    {DictItem(None, p, u) :
        p \in {None, Some(TmpPath), Some(RootPath), Some(RelPath)},
        u \in {None, Some(EmptyStr), Some(AbsUrl), Some(RootUrl)}}
    \cup {StrItem(s) : s \in {EmptyStr, AbsUrl, TmpPath, RootPath}}
    \cup {OtherItem}

\* lines of every kind the loop tells apart, a terminal event of every outcome
ReadLineKinds ==
    {SkipLine, NonDictLine, Event("estimation", TRUE, <<>>),
     Completed(FALSE, <<UrlItem>>), Completed(FALSE, <<>>), Completed(TRUE, <<>>),
     Completed(TRUE, <<BareItem>>), Completed(TRUE, <<UrlItem>>)}

ReadStreams ==
    SeqsUpTo(SeqsUpTo(ReadLineKinds, MaxLines), MaxChunks)
        \cup {<< <<Completed(TRUE, <<i>>)>> >> : i \in AddressItems}

InitRead ==
    /\ pure_in \in {Some([chunks |-> c, ends |-> e]) :
                       c \in ReadStreams, e \in {"closed", "error"}}
    /\ pure_out = None
    /\ NoExecuteCall

LoopReturns ==
    /\ pure_in # None /\ pure_out = None
    /\ pure_out' = Some(ReadChunks(pure_in[1].chunks, <<>>, pure_in[1].ends,
                                   ReadEndpoint))
    /\ UNCHANGED <<calls, getters, pure_in>>

NextRead == LoopReturns

SpecRead == InitRead /\ [][NextRead]_vars

\* ================================================================== claims
InAttempt(r) == pc[r] \in {"join", "stream", "download"}
HoldsGate(r) == pc[r] \in {"join", "stream", "download", "send"}
HeldKey(r) == Key(CurrentEndpoint(r))
HeldBy(r) == {k \in DOMAIN endpoint_locks : endpoint_locks[k] = r}
Range(seq) == {seq[i] : i \in 1..Len(seq)}
ConfigValid == ValidateConfig(config).ok
ConfiguredPool == LoadEndpoints(config)

\* C1: a call that is in a join, stream or download on a routing key holds
\* that key's gate, and no two calls are in such a stage on the same key.
C1_GateExclusion ==
    /\ \A r \in Requests : InAttempt(r) =>
            /\ HeldKey(r) \in DOMAIN endpoint_locks
            /\ endpoint_locks[HeldKey(r)] = r
    /\ \A r1, r2 \in Requests :
            r1 # r2 /\ InAttempt(r1) /\ InAttempt(r2) => HeldKey(r1) # HeldKey(r2)

\* two calls in an attempt at once, one of them having passed over a held gate
C1_Witness ==
    \E r1, r2 \in Requests :
        /\ r1 # r2 /\ InAttempt(r1) /\ InAttempt(r2)
        /\ ordered[r2][1] = ordered[r1][idx[r1]]
        /\ idx[r2] = 2 /\ skipped[r2] # {}

\* C2: when a call passes over an endpoint, the gate of that endpoint is held
\* by another call, stays held by it through the step, and the call has, in
\* the same step, joined a later endpoint of its order or returned; it sent
\* no join to the endpoint it passed over.
C2_NeverWaits ==
    [][\A r \in Requests : \A i \in skipped'[r] \ skipped[r] :
            LET k == Key(endpoints[r][i])
            IN  /\ k \in DOMAIN endpoint_locks
                /\ endpoint_locks[k] \notin {0, r}
                /\ endpoint_locks'[k] = endpoint_locks[k]
                /\ pc'[r] \in {"join", "done"}
                /\ i \notin Range(joins'[r])
                /\ pc'[r] = "join" =>
                      /\ joins'[r] = Append(joins[r], ordered'[r][idx'[r]])
                      /\ \E q \in 1..(idx'[r] - 1) : ordered'[r][q] = i]_vars

\* a call that is in its attempt on a later endpoint after passing one over
C2_Witness ==
    \E r \in Requests : pc[r] = "join" /\ skipped[r] # {} /\ idx[r] > 1

\* C3: a step that leaves a join, stream or download either enters the next
\* stage on the same endpoint or is a failure of the attempt; and when an
\* attempt fails with endpoints left in the order, the call has examined the
\* next one in that step: it is in the join of a later endpoint, or it has
\* returned with every remaining endpoint passed over as held.
NextStage(stage) ==
    IF stage = "join" THEN "stream" ELSE IF stage = "stream" THEN "download" ELSE "send"

C3_FailoverOnFailure ==
    [][\A r \in Requests :
          /\ InAttempt(r) /\ (pc'[r] # pc[r] \/ idx'[r] # idx[r]) =>
                \/ pc'[r] = NextStage(pc[r]) /\ idx'[r] = idx[r] /\ failed'[r] = failed[r]
                \/ failed'[r] = failed[r] \cup {ordered[r][idx[r]]}
                      /\ ordered[r][idx[r]] \notin failed[r]
          /\ failed'[r] # failed[r] /\ idx[r] < Len(ordered[r]) =>
                \/ /\ pc'[r] = "join"
                   /\ idx'[r] > idx[r]
                   /\ joins'[r] = Append(joins[r], ordered[r][idx'[r]])
                   /\ \A q \in (idx[r] + 1)..(idx'[r] - 1) : ordered[r][q] \in skipped'[r]
                \/ /\ pc'[r] = "done"
                   /\ \A q \in (idx[r] + 1)..Len(ordered[r]) :
                         /\ ordered[r][q] \in skipped'[r]
                         /\ Locked(endpoint_locks, Key(endpoints[r][ordered[r][q]]))]_vars

\* a call in the join of its second endpoint after the first one failed
C3_Witness ==
    \E r \in Requests : pc[r] = "join" /\ idx[r] = 2 /\ failed[r] = {ordered[r][1]}

\* C4 (as claimed): once a call has downloaded a valid payload it issues no
\* further join.
C4_NoJoinAfterAudio ==
    [][\A r \in Requests : got_audio[r] # {} => joins'[r] = joins[r]]_vars

\* C5 (as claimed): a call on a valid pool returns a failure only if every
\* endpoint of the pool was passed over as held or failed in its attempt.
C5_FailureOnlyWhenExhausted ==
    \A r \in Requests :
        result[r].returned /\ ~result[r].success /\ ConfigValid =>
            \A i \in 1..Len(ConfiguredPool) : i \in skipped[r] \cup failed[r]

\* C5 (amended): a call on a valid pool returns a failure only if (a) every
\* endpoint of the pool was passed over as held, failed in its attempt, or
\* delivered a valid payload whose hand-over raised, or (b) send_audio gave a
\* failure result for the valid payload of the endpoint joined last.
C5_FailureCauses ==
    \A r \in Requests :
        result[r].returned /\ ~result[r].success /\ ConfigValid =>
            \/ /\ result[r].kind = "all_failed"
               /\ \A i \in 1..Len(ConfiguredPool) :
                     i \in skipped[r] \cup failed[r] \cup got_audio[r]
               /\ skipped[r] \cap Range(joins[r]) = {}
               /\ failed[r] \cup got_audio[r] = Range(joins[r])
               /\ failed[r] \cap got_audio[r] = {}
            \/ /\ result[r].kind = "send_refused"
               /\ joins[r] # <<>>
               /\ joins[r][Len(joins[r])] \in got_audio[r] \ failed[r]

\* a failure returned after one endpoint was passed over and the other failed
C5_Witness ==
    \E r \in Requests :
        /\ result[r].returned /\ result[r].kind = "all_failed"
        /\ skipped[r] # {} /\ failed[r] # {} /\ got_audio[r] = {}

\* C6 (as claimed): within one call no routing key receives two joins.
C6_OneJoinPerKey ==
    \A r \in Requests : \A a, b \in 1..Len(joins[r]) :
        a # b => Key(ConfiguredPool[joins[r][a]]) # Key(ConfiguredPool[joins[r][b]])

\* C7: a call holds at most one gate; it holds exactly the gate of its
\* current endpoint from the join to the end of the hand-over and none before
\* its first join or after it returned; with no call between join and
\* hand-over every gate of the table is free.
C7_GatesReleased ==
    /\ \A r \in Requests :
          /\ Cardinality(HeldBy(r)) <= 1
          /\ HoldsGate(r) => HeldBy(r) = {HeldKey(r)}
          /\ ~HoldsGate(r) => HeldBy(r) = {}
    /\ (\A r \in Requests : pc[r] \in {"idle", "done"}) =>
          \A k \in DOMAIN endpoint_locks : endpoint_locks[k] = 0

\* every call has returned, one of them after two attempts, and gates exist
C7_Witness ==
    /\ \A r \in Requests : pc[r] = "done"
    /\ \E r \in Requests : Len(joins[r]) = 2 /\ ~result[r].success
    /\ \E r \in Requests : result[r].success
    /\ Cardinality(DOMAIN endpoint_locks) = 2


\* C8: the failover scenario on a pool of two endpoints, step by step.
\* (1) the probe of the first endpoint failed and the probe of the second
\*     returns depth 0: the second endpoint is examined first, and joined
\*     when its gate is free;
\* (2) the order is [second, first] and the join of the second returns 500:
\*     the call does not return, it records the error of the second and joins
\*     the first (whose gate no other call holds);
\* (3) the stream of the first completes with an item that has a url: that
\*     url, verbatim, is the download address;
\* (4) the download of it returns 200 with a payload of full size: the audio
\*     goes to the hand-over;
\* (5) the hand-over completes: the call returns success and the result
\*     carries no error, though last_error holds the error of the second.
InScenario(r) == Len(endpoints[r]) = 2 /\ ordered[r] = <<2, 1>>

\* the first endpoint is being attempted after the join of the second failed
OnFirst(r) ==
    /\ InScenario(r) /\ idx[r] = 2
    /\ last_error[r] = LastError(endpoints[r][2].name, "join")

ScenarioUrl == Address("verbatim", <<>>, UrlItem.url[1])

C8_FailoverScenario ==
    [][\A r \in Requests :
          /\ \A reply \in MainProbeReplies :
                ( /\ pc[r] = "probe" /\ Len(endpoints[r]) = 2
                  /\ probed[r] = <<None>> /\ GetQueueSize(reply) = Some(0)
                  /\ ProbeReply(r, reply) ) =>
                     IF Locked(endpoint_locks, Key(endpoints[r][2]))
                     THEN 2 \in skipped'[r] /\ joins'[r] \in {<<>>, <<1>>}
                     ELSE /\ pc'[r] = "join" /\ ordered'[r] = <<2, 1>>
                          /\ idx'[r] = 1 /\ joins'[r] = <<2>>
          /\ ( /\ pc[r] = "join" /\ InScenario(r) /\ idx[r] = 1
               /\ \A o \in Requests \ {r} : HeldBy(o) # {Key(endpoints[r][1])}
               /\ JoinReply(r, HttpReply(500, None)) ) =>
                  /\ pc'[r] = "join" /\ idx'[r] = 2 /\ ordered'[r] = <<2, 1>>
                  /\ joins'[r] = <<2, 1>> /\ failed'[r] = {2}
                  /\ ~result'[r].returned
                  /\ last_error'[r] = LastError(endpoints[r][2].name, "join")
          /\ \A e \in {"closed", "error"} :
                ( /\ pc[r] = "stream" /\ OnFirst(r)
                  /\ StreamReply(r, StreamReplyOf(HttpOk,
                                       << <<Completed(TRUE, <<UrlItem>>)>> >>, e)) ) =>
                     /\ pc'[r] = "download" /\ idx'[r] = 2
                     /\ audio_url'[r] = Some(ScenarioUrl)
          /\ \A reply \in DownloadReplies :
                ( /\ pc[r] = "download" /\ OnFirst(r)
                  /\ audio_url[r] = Some(ScenarioUrl)
                  /\ reply.kind = "http" /\ reply.status = HttpOk
                  /\ reply.length >= MIN_AUDIO_SIZE
                  /\ DownloadReply(r, reply) ) =>
                     pc'[r] = "send" /\ got_audio'[r] = {1}
          /\ \A env \in SendEnvs :
                ( /\ pc[r] = "send" /\ OnFirst(r)
                  /\ audio_url[r] = Some(ScenarioUrl)
                  /\ SendAudio(env) = "sent"
                  /\ SendReply(r, env) ) =>
                     /\ result'[r] = Returned(TRUE, "sent", NoError)
                     /\ sent'[r] = 1 /\ HeldBy(r)' = {}]_vars

\* the scenario has run to its end: second joined and failed, first joined,
\* its audio handed over once, success returned
C8_Witness ==
    \E r \in Requests :
        /\ result[r] = Returned(TRUE, "sent", NoError)
        /\ joins[r] = <<2, 1>> /\ failed[r] = {2} /\ got_audio[r] = {1}
        /\ skipped[r] = {} /\ sent[r] = 1

\* ------------------------------------------------------- claims on ranking
DepthOf(qs) == IF qs = None THEN UnknownDepth ELSE qs[1]

\* the ranking step of call r with this reply to its last probe
RankingStep(r, reply) ==
    /\ pc[r] = "probe"
    /\ Len(sizes[r]) + 1 = Len(endpoints[r])
    /\ ProbeReply(r, reply)
    /\ pc'[r] = "join"

IsPermutation(ord, n) ==
    Len(ord) = n /\ \A i \in 1..n : \E q \in 1..n : ord[q] = i

\* C9: the attempt order is a permutation of the pool in which no endpoint
\* comes before one of smaller depth, nor before one of equal depth and
\* smaller name, an unknown depth counting as 10000; depths A:5, B:2, C:2,
\* D:unknown give B, C, A, D.
C9_RankedByDepthThenName ==
    [][\A reply \in RankProbeReplies : RankingStep(1, reply) =>
          LET pool == endpoints[1]
              qs == Append(probed[1], GetQueueSize(reply))
              ord == ordered'[1]
              depth(q) == DepthOf(qs[ord[q]])
              name(q) == pool[ord[q]].name
          IN  /\ IsPermutation(ord, Len(pool))
              /\ \A a, b \in 1..Len(ord) : a < b =>
                    \/ depth(a) < depth(b)
                    \/ depth(a) = depth(b) /\ ~StrLess(name(b), name(a))
              /\ ( /\ [i \in 1..Len(pool) |-> pool[i].name] = <<<<65>>, <<66>>, <<67>>, <<68>>>>
                   /\ qs = <<Some(5), Some(2), Some(2), None>> )
                    => ord = <<2, 3, 1, 4>>]_vars

\* the pool A, B, C, D ranked B, C, A, D
C9_Witness ==
    /\ pc[1] = "join"
    /\ [i \in 1..Len(endpoints[1]) |-> endpoints[1][i].name]
          = <<<<65>>, <<66>>, <<67>>, <<68>>>>
    /\ ordered[1] = <<2, 3, 1, 4>>

\* C10 (as claimed): no endpoint whose probe failed is ranked ahead of an
\* endpoint whose probe returned a depth.
C10_UnknownRankedLast ==
    [][\A reply \in RankProbeReplies : RankingStep(1, reply) =>
          LET qs == Append(probed[1], GetQueueSize(reply))
              ord == ordered'[1]
          IN  \A a, b \in 1..Len(ord) :
                 a < b => ~(qs[ord[a]] = None /\ qs[ord[b]] # None)]_vars

\* C11: with prefer-idle on and busy threshold t, in the attempt order no
\* endpoint of depth > t comes before one of depth <= t, and within the
\* endpoints of depth <= t, and within those of depth > t, the order is by
\* depth, then name (an unknown depth counting as 10000); t = 0 and depths
\* A:0, B:1 give A, B.
C11_IdleBeforeBusy ==
    [][\A reply \in IdleProbeReplies : RankingStep(1, reply) /\ prefer_idle =>
          LET pool == endpoints[1]
              qs == Append(probed[1], GetQueueSize(reply))
              ord == ordered'[1]
              depth(q) == DepthOf(qs[ord[q]])
              name(q) == pool[ord[q]].name
              idle(q) == depth(q) <= busy_threshold
          IN  /\ IsPermutation(ord, Len(pool))
              /\ \A a, b \in 1..Len(ord) : a < b =>
                    /\ idle(b) => idle(a)
                    /\ idle(a) = idle(b) =>
                          \/ depth(a) < depth(b)
                          \/ depth(a) = depth(b) /\ ~StrLess(name(b), name(a))
              /\ ( /\ [i \in 1..Len(pool) |-> pool[i].name] = <<<<65>>, <<66>>>>
                   /\ busy_threshold = 0
                   /\ qs = <<Some(0), Some(1)>> )
                    => ord = <<1, 2>>]_vars

\* prefer-idle on, threshold 0, the pool A, B ranked A, B
C11_Witness ==
    /\ pc[1] = "join" /\ prefer_idle /\ busy_threshold = 0
    /\ [i \in 1..Len(endpoints[1]) |-> endpoints[1][i].name] = <<<<65>>, <<66>>>>
    /\ ordered[1] = <<1, 2>>

\* ---------------------------------------------------- claims on validation
\* what a record of the configuration gives, read off the record itself
RawAddress(item) == IF item.base_url = None THEN <<>> ELSE item.base_url[1]
RawCredential(item) == IF item.studio_token = None THEN <<>> ELSE item.studio_token[1]
\* an address that is not only slashes, a token that is not only spaces
HasAddress(item) ==
    item.is_dict /\ \E i \in 1..Len(RawAddress(item)) : RawAddress(item)[i] # SlashChar
HasCredential(item) ==
    item.is_dict /\ \E i \in 1..Len(RawCredential(item)) : RawCredential(item)[i] # SpaceChar

Validated(r) == pc[r] # "idle"
ValidationOk(r) == pc[r] = "probe" /\ ~result[r].returned
ValidationFailed(r) ==
    /\ pc[r] = "done"
    /\ \E k \in {"endpoints_empty", "endpoint_incomplete"} :
          result[r] = Returned(FALSE, k, NoError)

\* C12 (as claimed): a configuration with at least one record that has a
\* non-empty address and a non-empty credential passes validation, whatever
\* its other records are.
C12_OneGoodRecordSuffices ==
    Validated(1) /\ (\E i \in 1..Len(config) :
                        HasAddress(config[i]) /\ HasCredential(config[i]))
        => ValidationOk(1)

\* C12 (amended): a configuration passes validation when at least one record
\* has an address (not empty once trailing slashes are removed) and every
\* record that has an address also has a credential (not empty once
\* surrounding spaces are removed).
C12_AdmittedAllComplete ==
    Validated(1)
        /\ (\E i \in 1..Len(config) : HasAddress(config[i]))
        /\ (\A i \in 1..Len(config) : HasAddress(config[i]) => HasCredential(config[i]))
        => ValidationOk(1) /\ endpoints[1] # <<>>

\* validation passed on two records of which one was dropped
C12_Witness ==
    /\ ValidationOk(1) /\ Len(config) = 2 /\ Len(endpoints[1]) = 1
    /\ ~HasAddress(config[1]) /\ HasAddress(config[2])

\* C13: a configuration in which every record lacks an address or lacks a
\* credential (the empty list included) fails validation, with one
\* configuration error and no endpoint probed.
C13_NoCompleteRecordFails ==
    Validated(1)
        /\ (\A i \in 1..Len(config) : ~HasAddress(config[i]) \/ ~HasCredential(config[i]))
        => ValidationFailed(1) /\ endpoints[1] = <<>> /\ joins[1] = <<>>

\* validation failed on a record with an address and no credential
C13_Witness ==
    /\ ValidationFailed(1) /\ Len(config) = 2
    /\ \E i \in 1..2 : HasAddress(config[i]) /\ ~HasCredential(config[i])

\* ------------------------------------------------ claims on the selector
\* an item that has strings to score: an object or a bare string
Scored(item) == item.type \in {"dict", "str"}
\* the markers an item earns: none when it has no strings
Earned(item) == IF Scored(item) THEN ItemScore(item) ELSE 0

C15_NoScoreLastItem ==
    pure_out # None =>
        LET out == pure_in[1]
            picked == pure_out[1]
        IN  /\ \E i \in 1..Len(out) : picked = out[i]
            /\ (\A i \in 1..Len(out) : Earned(out[i]) = 0) => picked = out[Len(out)]

\* C15 (amended): when no item earns any score the selector returns the last
\* of the items that are objects or bare strings, and the last item of the
\* list when there is none; it always returns an element of the list.
C15_NoScoreLastScored ==
    pure_out # None =>
        LET out == pure_in[1]
            picked == pure_out[1]
            cand == {i \in 1..Len(out) : Scored(out[i])}
        IN  /\ \E i \in 1..Len(out) : picked = out[i]
            /\ (\A i \in 1..Len(out) : Earned(out[i]) = 0) =>
                  IF cand = {} THEN picked = out[Len(out)]
                  ELSE picked = out[CHOOSE i \in cand : \A j \in cand : j <= i]

\* no score anywhere: a string followed by a value of another kind gives the
\* string, and two values of other kinds give the second
C15_Witness ==
    \/ pure_in = Some(<<UrlItem, PlainText, OtherItem>>) /\ pure_out = Some(PlainText)
    \/ pure_in = Some(<<OtherItem, NullItem>>) /\ pure_out = Some(NullItem)

\* ------------------------------------------------ claims on the download
\* C16: the attempt returns its audio exactly when the download answered 200
\* with a payload of at least 100 bytes; a payload under 100 bytes with
\* status 200 fails the attempt, and the call goes on to the next endpoint
\* of its order (or returns when none is left or free); a payload of exactly
\* 100 bytes is accepted.
C16_PayloadFloor ==
    [][\A r \in Requests : \A reply \in DownloadReplies :
          pc[r] = "download" /\ DownloadReply(r, reply) =>
             LET ok == reply.kind = "http" /\ reply.status = 200 /\ reply.length >= 100
                 here == ordered[r][idx[r]]
             IN  /\ ok <=> (pc'[r] = "send" /\ got_audio'[r] = got_audio[r] \cup {here})
                 /\ ok => idx'[r] = idx[r] /\ failed'[r] = failed[r]
                 /\ ~ok =>
                       /\ failed'[r] = failed[r] \cup {here}
                       /\ got_audio'[r] = got_audio[r]
                       /\ \/ pc'[r] = "join" /\ idx'[r] > idx[r]
                          \/ /\ pc'[r] = "done" /\ ~result'[r].success
                             /\ \A q \in (idx[r] + 1)..Len(ordered[r]) :
                                   ordered[r][q] \in skipped'[r]
                 /\ (reply.kind = "http" /\ reply.status = 200 /\ reply.length = 50) => ~ok
                 /\ (reply.kind = "http" /\ reply.status = 200 /\ reply.length = 100) => ok]_vars

\* one call in the join of its second endpoint after the download from the
\* first failed, the other with a payload accepted
C16_Witness ==
    \E r1, r2 \in Requests :
        /\ pc[r1] = "join" /\ idx[r1] = 2
        /\ last_error[r1].set /\ last_error[r1].diag = "download"
        /\ pc[r2] = "send" /\ got_audio[r2] # {}

\* ------------------------------------------------ claims on the stream
\* what the reader gives when the whole content arrives as one chunk
InOnePiece(content) == ReadStream(<<content>>, <<>>, <<>>)

\* C17 (as claimed): however the content is cut into chunks, the events the
\* reader decodes are those it decodes from the content in one piece.
C17_SplitInvariant ==
    pure_out # None => pure_out[1].events = InOnePiece(pure_in[1].content).events

\* ------------------------------------------ claims on the returned failure
\* C18: a call that found the gate of every endpoint of its order held has
\* sent no join and returns the failure that carries no endpoint error; a
\* call that returns the failure of the exhausted pool after sending a join
\* returns it with the error of an endpoint, so the two results differ.
C18_AllBusyDistinct ==
    \A r \in Requests :
        result[r].returned /\ ConfigValid =>
            /\ skipped[r] = 1..Len(ConfiguredPool) =>
                  /\ joins[r] = <<>>
                  /\ result[r] = Returned(FALSE, "all_failed", NoError)
            /\ (result[r].kind = "all_failed" /\ joins[r] # <<>>) =>
                  /\ result[r].error.set
                  /\ result[r] # Returned(FALSE, "all_failed", NoError)

\* one call returned after finding every gate held, another after every
\* endpoint it tried failed
C18_Witness ==
    \E r1, r2 \in Requests :
        /\ result[r1] = Returned(FALSE, "all_failed", NoError)
        /\ skipped[r1] = 1..Len(ConfiguredPool) /\ joins[r1] = <<>>
        /\ result[r2].returned /\ result[r2].kind = "all_failed"
        /\ joins[r2] # <<>> /\ failed[r2] = Range(joins[r2])

\* ------------------------------------------- claims on the stage order
\* a terminal event with output among the lines of a stream response
HasTerminalOutput(reply) ==
    /\ reply.kind = "http"
    /\ \E c \in 1..Len(reply.chunks) : \E l \in 1..Len(reply.chunks[c]) :
          LET line == reply.chunks[c][l]
          IN  /\ line.kind = "event" /\ line.msg = "process_completed"
              /\ line.success /\ line.out # <<>>

C20_PairNonEmpty ==
    pure_out # None => pure_out[1].character # <<>> /\ pure_out[1].preset # <<>>

\* --------------------------------------- claims on the end of the stream
\* C21 (as claimed): among the events an attempt decodes from its stream a
\* terminal event is the last one: nothing is decoded after it, so there is
\* at most one terminal event, and an event that is not terminal never ends
\* the reading while a terminal one is still to come.
C21_EndsAtFirstTerminal ==
    pure_out # None =>
        LET events == pure_out[1].events
        IN  \A i \in 1..Len(events) : IsCompleted(events[i]) => i = Len(events)

\* ------------------------------------- claims on the terminal event
\* the lines of a stream in the order read
RECURSIVE LinesOf(_)
LinesOf(chunks) ==
    IF chunks = <<>> THEN <<>> ELSE chunks[1] \o LinesOf(Tail(chunks))

IsTerminal(line) == line.kind = "event" /\ line.msg = "process_completed"

\* C22: the loop ends with an address to download only when the stream held
\* a terminal event and the first one it held had success not false and a
\* non-empty output; when the first terminal event has success false or its
\* output is empty or missing, the loop raises and no address is returned,
\* whatever the other field and the rest of the stream are.
C22_DownloadNeedsSuccessAndOutput ==
    pure_out # None =>
        LET lines == LinesOf(pure_in[1].chunks)
            terminals == SelectSeq(lines, IsTerminal)
            got == pure_out[1]
        IN  /\ got.status \in {"url", "raise"}
            /\ got.status = "url" <=> got.url # None
            /\ got.status = "url" =>
                  /\ terminals # <<>>
                  /\ terminals[1].success /\ terminals[1].out # <<>>
            /\ (terminals # <<>> /\ (~terminals[1].success \/ terminals[1].out = <<>>)) =>
                  got.status = "raise" /\ got.url = None

\* the loop raised on a terminal event whose success is false while its
\* output held an item with a url
C22_Witness ==
    /\ pure_out # None
    /\ pure_out[1].status = "raise" /\ pure_out[1].diag = "success_false"
    /\ LET terminals == SelectSeq(LinesOf(pure_in[1].chunks), IsTerminal)
       IN  terminals[1] = Completed(FALSE, <<UrlItem>>)

\* ---------------------------------- claims on a stream without terminal event
\* a stream response that was opened and ends, closed by the server or cut
\* by the timeout, without a terminal event among its lines
NoTerminalEvent(reply) ==
    /\ reply.kind = "http" /\ reply.status = HttpOk
    /\ \A i \in 1..Len(LinesOf(reply.chunks)) : ~IsTerminal(LinesOf(reply.chunks)[i])

\* C23: when the stream of an attempt ends without a terminal event, the
\* attempt fails in that step: no download is issued, no address is kept,
\* the endpoint is recorded as failed with the error of the stream stage, and
\* the call goes on with the order: it is in the join of the next endpoint
\* whose gate is free, or it has returned the failure of the exhausted pool
\* with every remaining endpoint passed over as held.
C23_NoTerminalFailsOver ==
    [][\A r \in Requests : \A reply \in StreamReplies :
          (StreamReply(r, reply) /\ NoTerminalEvent(reply)) =>
             LET here == ordered[r][idx[r]]
                 error == LastError(endpoints[r][here].name, "stream")
             IN  /\ pc'[r] # "download" /\ audio_url'[r] = None
                 /\ failed'[r] = failed[r] \cup {here}
                 /\ got_audio'[r] = got_audio[r]
                 /\ \/ /\ pc'[r] = "join" /\ idx'[r] > idx[r]
                       /\ last_error'[r] = error
                       /\ joins'[r] = Append(joins[r], ordered[r][idx'[r]])
                       /\ endpoint_locks'[Key(endpoints[r][ordered[r][idx'[r]]])] = r
                       /\ \A q \in (idx[r] + 1)..(idx'[r] - 1) :
                             ordered[r][q] \in skipped'[r]
                    \/ /\ pc'[r] = "done"
                       /\ result'[r] = Returned(FALSE, "all_failed", error)
                       /\ joins'[r] = joins[r]
                       /\ \A k \in DOMAIN endpoint_locks' : endpoint_locks'[k] # r
                       /\ \A q \in (idx[r] + 1)..Len(ordered[r]) :
                             ordered[r][q] \in skipped'[r]]_vars

\* a call in the join of its second endpoint after the stream of the first
\* one failed and nothing was downloaded
C23_Witness ==
    \E r \in Requests :
        /\ pc[r] = "join" /\ idx[r] = 2 /\ failed[r] = {ordered[r][1]}
        /\ last_error[r] = LastError(endpoints[r][ordered[r][1]].name, "stream")
        /\ got_audio[r] = {} /\ audio_url[r] = None

\* ------------------------------------- claims on the lines that are skipped
\* the stream without the lines that are no terminal event
RECURSIVE TerminalsOnly(_)
TerminalsOnly(chunks) ==
    IF chunks = <<>> THEN <<>>
    ELSE <<SelectSeq(chunks[1], IsTerminal)>> \o TerminalsOnly(Tail(chunks))

\* C24 (as claimed): the lines that are no terminal event, whatever their
\* payload decodes to, are skipped: the loop ends as it ends on the same
\* stream without them.
C24_NonTerminalSkipped ==
    pure_out # None =>
        pure_out[1] = ReadChunks(TerminalsOnly(pure_in[1].chunks), <<>>,
                                 pure_in[1].ends, ReadEndpoint)

\* ------------------------------------------ claims on the download address
\* the stream of one chunk holding one terminal event with one item
OneItemStream(item) == << <<Completed(TRUE, <<item>>)>> >>

\* the address the claim gives for a reference: the url of an object when it
\* is an absolute one; else from the path of the object, or from the bare
\* string taken as a path, {base}/gradio_api/file={path} under the temp
\* prefix and {base}{path} for another root-relative path; None where the
\* claim names no address
ClaimedAddress(item, ep) ==
    LET url == IF item.type = "dict" THEN item.url ELSE None
        path == IF item.type = "dict" THEN item.path
                ELSE IF item.type = "str" THEN Some(item.text) ELSE None
    IN  IF url # None /\ url[1].head = "other"
        THEN Some(Address("verbatim", <<>>, url[1]))
        ELSE IF url # None /\ url[1].head # "empty" THEN None
        ELSE IF path # None /\ path[1].head = "tmp"
        THEN Some(Address("file", ep.base_url, path[1]))
        ELSE IF path # None /\ path[1].head = "root"
        THEN Some(Address("join", ep.base_url, path[1]))
        ELSE None

\* C25 (as claimed): for a selected reference with an absolute url, a path
\* under the temp prefix or another root-relative path, be it an object or a
\* bare string, the address the loop returns for the download is the one
\* the claim gives.
C25_AddressAsClaimed ==
    pure_out # None =>
        \A item \in AddressItems :
            (pure_in[1].chunks = OneItemStream(item)
                /\ ClaimedAddress(item, ReadEndpoint) # None) =>
               /\ pure_out[1].status = "url"
               /\ pure_out[1].url = ClaimedAddress(item, ReadEndpoint)

\* ------------------------------------- claims on the message of a failure
\* the call returns a failure in this step, after at least one join
FailsAfterAttempt(r) ==
    /\ ~result[r].returned /\ result'[r].returned /\ ~result'[r].success
    /\ joins[r] # <<>>

\* the error of the endpoint attempted last: its name and the stage of the
\* attempt that raised
ErrorOfLastAttempt(r) ==
    LastError(endpoints[r][joins[r][Len(joins[r])]].name, pc[r])

\* C26 (as claimed): a call that returns a failure after at least one attempt
\* returns it with the name and the diagnostic of the endpoint attempted last.
C26_FailureNamesLastAttempt ==
    [][\A r \in Requests :
          FailsAfterAttempt(r) => result'[r].error = ErrorOfLastAttempt(r)]_vars

\* C26 (amended): a call that returns the failure of the exhausted pool after
\* at least one attempt returns it with the name and the diagnostic of the
\* endpoint attempted last, which is the endpoint of the attempt that fails
\* in that step, also when the endpoints ranked after it are all passed over
\* as held; a failure returned after an attempt that is not the failure of
\* the exhausted pool is the result of send_audio and carries no endpoint.
C26_PoolFailureNamesLastAttempt ==
    [][\A r \in Requests :
          FailsAfterAttempt(r) =>
             IF result'[r].kind = "all_failed"
             THEN /\ HoldsGate(r)
                  /\ joins[r][Len(joins[r])] = ordered[r][idx[r]]
                  /\ result'[r].error = ErrorOfLastAttempt(r)
                  /\ \A q \in (idx[r] + 1)..Len(ordered[r]) :
                        ordered[r][q] \in skipped'[r] \ Range(joins[r])
             ELSE /\ result'[r].kind = "send_refused" /\ pc[r] = "send"
                  /\ result'[r].error = NoError]_vars

\* a call returned the failure of the pool with the error of the one endpoint
\* it attempted, the other endpoint having been passed over as held
C26_Witness ==
    \E r \in Requests :
        /\ result[r].returned /\ result[r].kind = "all_failed"
        /\ Len(joins[r]) = 1 /\ skipped[r] = {1, 2} \ Range(joins[r])
        /\ Len(ConfiguredPool) = 2
        /\ result[r].error.set
        /\ result[r].error.name = ConfiguredPool[joins[r][1]].name

\* ------------------------------------------ claims on the failure of a probe
\* a probe that failed: network error or timeout, a status other than 200,
\* a reply without an integer queue_size
ProbeFailed(reply) ==
    reply.kind = "error" \/ reply.status # HttpOk \/ reply.queue_size = None

\* C27: a probe that fails counts as the unknown depth and does nothing else.
\* Before the last probe the call records the sentinel for the endpoint and
\* goes on probing; at the last probe it ranks with the sentinel and the order
\* holds every endpoint of the pool, those whose probe failed included; the
\* call does not return in that step unless every gate of the order is held,
\* and then with the failure that carries no endpoint error.
C27_ProbeFailureIsUnknown ==
    [][\A r \in Requests : \A reply \in MainProbeReplies :
          (ProbeReply(r, reply) /\ ProbeFailed(reply)) =>
             LET pool == endpoints[r]
                 now == Append(sizes[r], [ep |-> Len(sizes[r]) + 1, qs |-> UnknownDepth])
                 ord == SortedEndpoints(pool, now, prefer_idle, busy_threshold)
             IN  /\ last_error'[r] = NoError
                 /\ failed'[r] = failed[r]
                 /\ IF Len(now) < Len(pool)
                    THEN /\ pc'[r] = "probe" /\ sizes'[r] = now
                         /\ result'[r] = result[r] /\ ~result[r].returned
                    ELSE /\ IsPermutation(ord, Len(pool))
                         /\ \/ /\ pc'[r] = "join" /\ ordered'[r] = ord
                               /\ ~result'[r].returned
                               /\ joins'[r] = Append(joins[r], ord[idx'[r]])
                            \/ /\ pc'[r] = "done"
                               /\ result'[r] = Returned(FALSE, "all_failed", NoError)
                               /\ skipped'[r] = 1..Len(pool)
                               /\ \A i \in 1..Len(pool) :
                                     /\ Locked(endpoint_locks, Key(pool[i]))
                                     /\ endpoint_locks[Key(pool[i])] # r]_vars

\* a call whose first probe failed is still ranking: the sentinel is recorded
\* for that endpoint and the call probes the next one
C27_Witness ==
    \E r \in Requests :
        /\ pc[r] = "probe" /\ ~result[r].returned
        /\ Len(endpoints[r]) = 2 /\ probed[r] = <<None>>
        /\ sizes[r] = <<[ep |-> 1, qs |-> UnknownDepth]>>

\* --------------------------------------------- claims on the preset chosen
\* the preset the voice string itself supplies: the text after its first
\* colon, stripped; empty when there is no colon
GivenPreset(voice) ==
    LET raw == Strip(IF voice = None THEN <<>> ELSE voice[1])
    IN  IF ColonAt(raw) = 0 THEN <<>> ELSE Strip(SubSeq(raw, ColonAt(raw) + 1, Len(raw)))

\* the preset of the first applicable tier, for the character the call uses
TierPreset(in, character) ==
    LET emo == Strip(in.emotion)
        char_map == LoadCharacterEmotionMap(in.characters, character)
        global_map == LoadEmotionMap(in.emotion_preset_map)
    IN  IF GivenPreset(in.voice) # <<>> THEN GivenPreset(in.voice)
        ELSE IF emo # <<>> /\ InMap(char_map, emo) THEN MapGet(char_map, emo)
        ELSE IF emo # <<>> /\ InMap(global_map, emo) THEN MapGet(global_map, emo)
        ELSE IF emo \in SadWords /\ InMap(global_map, Sad) THEN MapGet(global_map, Sad)
        ELSE IF emo \in HappyWords /\ InMap(global_map, Happy)
        THEN MapGet(global_map, Happy)
        ELSE in.default_preset

\* C28 (as claimed): the preset put into the job payload is that of the first
\* applicable tier: the preset given in the voice string, the entry of the
\* character's emotion map, the entry of the global emotion map, the synonym's
\* entry of the global map, the default preset.
C28_FirstApplicableTier ==
    pure_out # None =>
        pure_out[1].preset = TierPreset(pure_in[1], pure_out[1].character)

\* C29 (as claimed): the emotion is ignored exactly when the voice string
\* supplies a non-empty preset: then the preset is the supplied one whatever
\* the emotion; a voice string without one, with or without a colon, leaves
\* the preset to the emotion maps: an emotion that is a key of the
\* character's map, or else of the global map, gives that entry.
C29_EmotionIgnoredIffPresetGiven ==
    pure_out # None =>
        LET in == pure_in[1]
            emo == Strip(in.emotion)
            char_map == LoadCharacterEmotionMap(in.characters, pure_out[1].character)
            global_map == LoadEmotionMap(in.emotion_preset_map)
        IN  /\ GivenPreset(in.voice) # <<>> => pure_out[1].preset = GivenPreset(in.voice)
            /\ (GivenPreset(in.voice) = <<>> /\ emo # <<>> /\ InMap(char_map, emo)) =>
                  pure_out[1].preset = MapGet(char_map, emo)
            /\ (GivenPreset(in.voice) = <<>> /\ emo # <<>> /\ ~InMap(char_map, emo)
                   /\ InMap(global_map, emo)) =>
                  pure_out[1].preset = MapGet(global_map, emo)

\* --------------------------------------------------- claims on termination
Called(r) == pc[r] # "idle"

\* C30 (as claimed): with every network stage ending, every execute call
\* that is made returns.
C30_EveryCallReturns ==
    \A r \in Requests : Called(r) ~> result[r].returned

\* C30 (amended): with every network stage ending and every hand-over of
\* audio to the caller ending, every execute call that is made returns,
\* whatever the other calls do and whichever gates they hold.
C30_ReturnsIfHandOverEnds ==
    (\A r \in Requests : WF_vars(HandOver(r)))
        => (\A r \in Requests : Called(r) ~> result[r].returned)

\* both calls have returned, one of them after it passed over an endpoint
\* whose gate the other held
C30_Witness ==
    \E r1, r2 \in Requests :
        /\ r1 # r2 /\ result[r1].returned /\ result[r2].returned
        /\ skipped[r1] # {} /\ joins[r2] # <<>>

\* ------------------------------------- claims on the pool a call works with
\* call r is probing, or holds the ranked pool and iterates it
WorksOnPool(r) == pc[r] \in {"probe", "join", "stream", "download", "send"}

\* C31: while a call probes, ranks or iterates, its pool is the pool of the
\* configuration, it is not empty and every endpoint in it has a non-empty
\* address and a non-empty credential; with an empty or invalid configuration
\* a call is either not made yet or has returned the configuration error, no
\* probe was answered for it, it issued no join, passed over no gate, and the
\* gate table is still empty.
C31_PoolNeverEmptyOrIncomplete ==
    \A r \in Requests :
        /\ WorksOnPool(r) =>
              /\ endpoints[r] = LoadEndpoints(config)
              /\ endpoints[r] # <<>>
              /\ \A i \in 1..Len(endpoints[r]) :
                    endpoints[r][i].base_url # <<>> /\ endpoints[r][i].studio_token # <<>>
        /\ ~ValidateConfig(config).ok =>
              /\ pc[r] \in {"idle", "done"}
              /\ pc[r] = "done" =>
                    result[r] = Returned(FALSE, ValidateConfig(config).err, NoError)
              /\ probed[r] = <<>> /\ sizes[r] = <<>> /\ joins[r] = <<>>
              /\ skipped[r] = {} /\ failed[r] = {}
              /\ endpoint_locks = <<>>

\* a call returned the configuration error for a configuration with two
\* records, one of them without credential, while the other call is not made
C31_Witness ==
    \E r \in Requests :
        /\ Len(config) = 2 /\ Len(LoadEndpoints(config)) = 2
        /\ \E i \in 1..2 : LoadEndpoints(config)[i].studio_token # <<>>
        /\ pc[r] = "done" /\ result[r] = Returned(FALSE, "endpoint_incomplete", NoError)
        /\ joins[r] = <<>> /\ endpoint_locks = <<>>

\* ------------------------------------------------- protocol index runs
\* _load_endpoints called on its own: records without a name, the address
\* "h" or "", the token "t", fn_index absent, 0, 3, 5 or -1 and trigger_id
\* absent, 0, 19 or 7, and a record that is not a dict
MaxIndexPool == 2    \* records in easytts.endpoints (protocol index runs)

IndexItems ==
    {[is_dict |-> TRUE, name |-> None, base_url |-> Some(u), studio_token |-> Some(<<116>>),
      fn_index |-> f, trigger_id |-> t] :
        u \in {<<104>>, <<>>},
        f \in {None, Some(0), Some(DefaultFnIndex), Some(5), Some(-1)},
        t \in {None, Some(0), Some(DefaultTriggerId), Some(7)}}
        \cup {NotADict}
IndexConfigs == SeqsUpTo(IndexItems, MaxIndexPool)

InitIndex ==
    /\ pure_in \in {Some(raw) : raw \in IndexConfigs}
    /\ pure_out = None
    /\ NoExecuteCall

LoadReturns ==
    /\ pure_in # None /\ pure_out = None
    /\ pure_out' = Some(LoadEndpoints(pure_in[1]))
    /\ UNCHANGED <<calls, getters, pure_in>>

NextIndex == LoadReturns

SpecIndex == InitIndex /\ [][NextIndex]_vars

\* ----------------------------------------- claims on the protocol indices
\* the record an admitted descriptor was made from: the records have no
\* name, so the descriptor's name "endpoint-{idx}" tells the record
RecordOf(ep, raw) == raw[CHOOSE i \in 1..Len(raw) : DefaultName(i - 1) = ep.name]

\* C32: the protocol indices of every admitted descriptor are the integers
\* configured in its record when the record gives them, 0 included, and the
\* defaults 3 and 19 only when the record does not give them.
C32_IndicesAsConfigured ==
    pure_out # None =>
        \A k \in 1..Len(pure_out[1]) :
            LET ep == pure_out[1][k]
                item == RecordOf(ep, pure_in[1])
            IN  /\ ep.fn_index =
                      (IF item.fn_index # None THEN item.fn_index[1] ELSE DefaultFnIndex)
                /\ ep.trigger_id =
                      (IF item.trigger_id # None THEN item.trigger_id[1]
                       ELSE DefaultTriggerId)

\* ------------------------------------------------- session identifier runs
\* _synthesize_on_endpoint called for a sequence of attempts (of one request
\* on several endpoints, or of several requests), each with the value that
\* uuid.uuid4().hex[:11] gives in that call: one of 16^11 values, here one of
\* NumHashes.
MaxAttempts == 3     \* calls of _synthesize_on_endpoint
NumHashes == 3       \* values of uuid.uuid4().hex[:11]

SessionHashes == 1..NumHashes
\* the endpoints "h" and "i" with the token "t"
SessionEndpoints ==
    {MakeEndpoint(RawItem(None, u, <<116>>), 0) : u \in {<<104>>, <<105>>}}

\* lines 234-240: the job payload
Payload(ep, hash) ==
    [fn_index |-> ep.fn_index, trigger_id |-> ep.trigger_id, session_hash |-> hash]

\* lines 242-245 and 250-255: the join request, json=payload
JoinRequest(ep, payload) ==
    [base_url |-> ep.base_url, studio_token |-> ep.studio_token,
     fn_index |-> payload.fn_index, trigger_id |-> payload.trigger_id,
     session_hash |-> payload.session_hash]

\* mutant: data_url built with a session hash kept from an earlier call
DataRequestStale(ep, payload) ==
    [base_url |-> ep.base_url, studio_token |-> ep.studio_token, session_hash |-> 1]

\* line 246 and 264-268: the stream request, session_hash={payload['session_hash']}
DataRequest(ep, payload) ==
    [base_url |-> ep.base_url, studio_token |-> ep.studio_token,
     session_hash |-> payload.session_hash]

\* the two requests of one attempt
AttemptRequests(attempt) ==
    LET payload == Payload(attempt.ep, attempt.uuid)
    IN  [join |-> JoinRequest(attempt.ep, payload),
         stream |-> DataRequest(attempt.ep, payload)]

InitSession ==
    /\ pure_in \in {Some(s) : s \in SeqsUpTo([ep : SessionEndpoints, uuid : SessionHashes],
                                             MaxAttempts)}
    /\ pure_out = None
    /\ NoExecuteCall

AttemptsReturn ==
    /\ pure_in # None /\ pure_out = None
    /\ pure_out' = Some([k \in 1..Len(pure_in[1]) |-> AttemptRequests(pure_in[1][k])])
    /\ UNCHANGED <<calls, getters, pure_in>>

NextSession == AttemptsReturn

SpecSession == InitSession /\ [][NextSession]_vars

GateKeys == {Key(ep) : ep \in SessionEndpoints}

\* _get_or_create_lock(key) is called
GetterCall(g, key) ==
    /\ getter[g].pc = "idle"
    /\ getter' = [getter EXCEPT ![g] = [pc |-> "enter", key |-> key, lock |-> 0]]
    /\ UNCHANGED <<calls, pure_in, pure_out, locks_guard, lock_made>>

\* mutant: the body runs without `async with self._locks_guard`
GetterEnterUnguarded(g) ==
    /\ getter[g].pc = "enter"
    /\ getter' = [getter EXCEPT ![g].pc = "check"]
    /\ UNCHANGED <<calls, pure_in, pure_out, locks_guard, lock_made>>

\* line 78: `async with self._locks_guard` is entered when the guard is free
GetterEnter(g) ==
    /\ getter[g].pc = "enter"
    /\ locks_guard = 0
    /\ locks_guard' = g
    /\ getter' = [getter EXCEPT ![g].pc = "check"]
    /\ UNCHANGED <<calls, pure_in, pure_out, lock_made>>

\* line 79: `if key not in self._endpoint_locks`
GetterCheck(g) ==
    /\ getter[g].pc = "check"
    /\ getter' = [getter EXCEPT ![g].pc =
                     IF getter[g].key \in DOMAIN lock_made THEN "return" ELSE "create"]
    /\ UNCHANGED <<calls, pure_in, pure_out, locks_guard, lock_made>>

\* line 80: `self._endpoint_locks[key] = asyncio.Lock()`
GetterCreate(g) ==
    /\ getter[g].pc = "create"
    /\ lock_made' = [k \in DOMAIN lock_made \cup {getter[g].key} |->
                        IF k = getter[g].key THEN g ELSE lock_made[k]]
    /\ getter' = [getter EXCEPT ![g].pc = "return"]
    /\ UNCHANGED <<calls, pure_in, pure_out, locks_guard>>

\* line 81: `return self._endpoint_locks[key]`, and the guard is released
GetterReturn(g) ==
    /\ getter[g].pc = "return"
    /\ getter' = [getter EXCEPT ![g].pc = "done", ![g].lock = lock_made[getter[g].key]]
    /\ locks_guard' = IF locks_guard = g THEN 0 ELSE locks_guard
    /\ UNCHANGED <<calls, pure_in, pure_out, lock_made>>

InitLocks == NoExecuteCall /\ NoHelperCall

NextLocks ==
    \E g \in Getters :
        \/ \E key \in GateKeys : GetterCall(g, key)
        \/ GetterEnter(g)
        \/ GetterCheck(g)
        \/ GetterCreate(g)
        \/ GetterReturn(g)

SpecLocks == InitLocks /\ [][NextLocks]_vars

\* ------------------------------------------------- claims on the gate table
\* C34: under every interleaving of concurrent get-or-create calls, the calls
\* that asked for the same routing key obtained the same Lock, which is the
\* one the table holds for that key, and no step replaces or removes an entry
\* of the table.
C34_OneLockPerKey ==
    /\ [](\A g, h \in Getters :
             (getter[g].pc = "done" /\ getter[h].pc = "done"
                 /\ getter[g].key = getter[h].key)
                => /\ getter[g].lock = getter[h].lock
                   /\ getter[g].key \in DOMAIN lock_made
                   /\ lock_made[getter[g].key] = getter[g].lock)
    /\ [][\A k \in DOMAIN lock_made :
             k \in DOMAIN lock_made' /\ lock_made'[k] = lock_made[k]]_vars

\* three calls returned, one of them with the Lock that another call
\* constructed for the same key, and the table holds a lock for both keys
C34_Witness ==
    /\ \A g \in Getters : getter[g].pc = "done"
    /\ \E g, h \in Getters : g # h /\ getter[g].key = getter[h].key
                                /\ getter[g].lock = h
    /\ DOMAIN lock_made = GateKeys

\* --------------------------------------------------- reference audio runs
\* EasyTTS.tts_upload_url (src/easytts_client.py) up to the join request of
\* EasyTTSRemoteClient._submit_and_wait, as a function of its arguments and
\* of the reply to the upload.
\* upload_reference_audio: raise_for_status, then the check of the body
UploadReferenceAudio(reply) ==
    IF reply.kind = "error" \/ reply.status >= 400
    THEN [ok |-> FALSE, diag |-> "upload_failed", paths |-> <<>>]
    ELSE IF ~reply.is_list \/ reply.data = <<>> \/ ~reply.data[1].is_str
    THEN [ok |-> FALSE, diag |-> "unexpected_upload_response", paths |-> <<>>]
    ELSE [ok |-> TRUE, diag |-> "", paths |-> reply.data]

\* the parameters of EasyTTSRemoteClient.tts_upload_ref, all keyword-only, and
\* those without a default
TtsUploadRefParams ==
    {"character", "text", "preset", "split_sentence", "uploaded_paths", "reference_text"}
TtsUploadRefRequired == {"character", "text", "uploaded_paths", "reference_text"}

\* a call with keyword arguments binds when every keyword is a parameter and
\* every parameter without default is given; otherwise it raises TypeError
BindsTo(params, required, kwargs) ==
    DOMAIN kwargs \subseteq params /\ required \subseteq DOMAIN kwargs

\* tts_upload_ref: the payload handed to _submit_and_wait, which posts it
TtsUploadRef(kwargs) ==
    [mode |-> "upload",
     data |-> <<kwargs.character, kwargs.text, kwargs.split_sentence, "upload",
                kwargs.preset, kwargs.uploaded_paths, kwargs.reference_text>>]

\* tts_upload_url, lines 71-87
TtsUploadUrl(in, reply) ==
    IF in.reference_audio = "missing_path"
    THEN [status |-> "raised", diag |-> "read_failed", uploaded |-> FALSE, join |-> None]
    ELSE LET up == UploadReferenceAudio(reply)
             kwargs == [character |-> in.character, text |-> in.text, preset |-> in.preset,
                        split_sentence |-> in.split_sentence,
                        uploaded_paths |-> up.paths,
                        reference_text |-> in.reference_text,
                        reference_filename |-> in.reference_filename]
         IN  IF ~up.ok
             THEN [status |-> "raised", diag |-> up.diag, uploaded |-> FALSE, join |-> None]
             ELSE IF ~BindsTo(TtsUploadRefParams, TtsUploadRefRequired, kwargs)
             THEN [status |-> "raised", diag |-> "type_error", uploaded |-> TRUE,
                   join |-> None]
             ELSE [status |-> "joined", diag |-> "", uploaded |-> TRUE,
                   join |-> Some(TtsUploadRef(kwargs))]

\* replies to the upload: a network error, status 500, and status 200 with a
\* body that is no list, [], [5], ["p"] or ["p", "q"]
UploadReplyOf(status, is_list, data) ==
    [kind |-> "http", status |-> status, is_list |-> is_list, data |-> data]
UploadReplies ==
    {[kind |-> "error", status |-> 0, is_list |-> FALSE, data |-> <<>>],
     UploadReplyOf(500, TRUE, <<[is_str |-> TRUE, v |-> <<112>>]>>),
     UploadReplyOf(HttpOk, FALSE, <<>>),
     UploadReplyOf(HttpOk, TRUE, <<>>),
     UploadReplyOf(HttpOk, TRUE, <<[is_str |-> FALSE, v |-> <<>>]>>),
     UploadReplyOf(HttpOk, TRUE, <<[is_str |-> TRUE, v |-> <<112>>]>>),
     UploadReplyOf(HttpOk, TRUE, <<[is_str |-> TRUE, v |-> <<112>>],
                                   [is_str |-> TRUE, v |-> <<113>>]>>)}

\* the arguments: the reference audio as bytes, as a path that can be read or
\* as one that cannot; the reference text "", "r" or "s"
UploadInputs ==
    [reference_audio : {"bytes", "path", "missing_path"},
     reference_text : {<<>>, <<114>>, <<115>>},
     reference_filename : {<<102>>},
     text : {<<120>>}, character : {<<109>>}, preset : {<<100>>},
     split_sentence : BOOLEAN]

InitUpload ==
    /\ pure_in \in {Some([in |-> i, reply |-> u]) : i \in UploadInputs, u \in UploadReplies}
    /\ pure_out = None
    /\ NoExecuteCall

UploadFlowReturns ==
    /\ pure_in # None /\ pure_out = None
    /\ pure_out' = Some(TtsUploadUrl(pure_in[1].in, pure_in[1].reply))
    /\ UNCHANGED <<calls, getters, pure_in>>

NextUpload == UploadFlowReturns

SpecUpload == InitUpload /\ [][NextUpload]_vars

\* ------------------------------------------- claims on the reference audio
\* C35: in the reference-audio flow a successful upload is followed by a join
\* whose data tuple carries the mode literal "upload", the file handles the
\* upload returned and the reference text; the flow does not stop between
\* the upload and the join.
C35_UploadThenJoin ==
    (pure_out # None /\ pure_in[1].in.reference_audio # "missing_path"
        /\ UploadReferenceAudio(pure_in[1].reply).ok)
       => /\ pure_out[1].status = "joined"
          /\ pure_out[1].join # None
          /\ pure_out[1].join[1].data[4] = "upload"
          /\ pure_out[1].join[1].data[6] = pure_in[1].reply.data
          /\ pure_out[1].join[1].data[7] = pure_in[1].in.reference_text

\* ------------------------------------------------- standalone client runs
\* EasyTTSRemoteClient._submit_and_wait (src/easytts_remote_client.py) after
\* its join, next to the loop of the backend, on the same stream and for the
\* same address and token.
\* a data: line whose payload is empty or is no JSON document
UndecodableLine == [kind |-> "skip", msg |-> "undecodable", success |-> TRUE, out |-> <<>>]
ApiPath == Str("api", FALSE, TRUE, FALSE)          \* "/gradio_api/file=a.wav"

\* lines 142-152 of the client: the address taken from the picked item
RemotePickedUrl(picked, ep) ==
    IF picked.type = "dict"
    THEN IF picked.url # None /\ picked.url[1].head # "empty"
         THEN Some(Address("verbatim", <<>>, picked.url[1]))
         ELSE IF picked.path # None /\ picked.path[1].head = "tmp"
              THEN Some(Address("file", ep.base_url, picked.path[1]))
              ELSE IF picked.path # None /\ picked.path[1].head = "api"
                   THEN Some(Address("join", ep.base_url, picked.path[1]))
                   ELSE None
    ELSE IF picked.text.head # "empty"
         THEN Some(Address("verbatim", <<>>, picked.text))
         ELSE None

\* lines 132-155 of the client: the loop over resp.iter_lines()
RECURSIVE RemoteReadLines(_, _)
RemoteReadLines(lines, ep) ==
    IF lines = <<>> THEN [status |-> "end", diag |-> "", url |-> None]
    ELSE LET line == lines[1]
         IN  IF line.kind = "skip"
             THEN IF line.msg = "undecodable"
                  THEN [status |-> "raise", diag |-> "json_error", url |-> None]
                  ELSE RemoteReadLines(Tail(lines), ep)
             ELSE IF line.kind = "nondict"
             THEN [status |-> "raise", diag |-> "attribute_error", url |-> None]
             ELSE IF line.msg # "process_completed" THEN RemoteReadLines(Tail(lines), ep)
             ELSE IF line.out = <<>>
             THEN [status |-> "raise", diag |-> "output_empty", url |-> None]
             ELSE LET picked == PickOutputAudio(line.out)
                  IN  IF picked.type \notin {"dict", "str"}
                      THEN [status |-> "raise", diag |-> "unexpected_type", url |-> None]
                      ELSE [status |-> "break", diag |-> "",
                            url |-> RemotePickedUrl(picked, ep)]

\* lines 124-163 of the client: the stream is read line by line, then the
\* address is checked and joined to the base
SubmitAndWait(chunks, ends, ep) ==
    LET got == RemoteReadLines(LinesOf(chunks), ep)
    IN  IF got.status = "raise" THEN [status |-> "raise", diag |-> got.diag, url |-> None]
        ELSE IF got.status = "end" /\ ends = "error"
        THEN [status |-> "raise", diag |-> "io_error", url |-> None]
        ELSE IF got.url = None
        THEN [status |-> "raise", diag |-> "no_audio_url", url |-> None]
        ELSE [status |-> "url", diag |-> "", url |-> Some(FinalUrl(got.url[1], ep))]

\* the streams of the stream reading runs, and streams with a payload that
\* does not decode, with a path under /gradio_api/ and with such a bare string
BothStreams ==
    ReadStreams
        \cup {<< <<UndecodableLine, Completed(TRUE, <<UrlItem>>)>> >>,
              << <<Completed(TRUE, <<DictItem(None, Some(ApiPath), None)>>)>> >>,
              << <<Completed(TRUE, <<StrItem(ApiPath)>>)>> >>}

InitBoth ==
    /\ pure_in \in {Some([chunks |-> c, ends |-> e]) :
                       c \in BothStreams, e \in {"closed", "error"}}
    /\ pure_out = None
    /\ NoExecuteCall

BothReturn ==
    /\ pure_in # None /\ pure_out = None
    /\ pure_out' = Some([backend |-> ReadChunks(pure_in[1].chunks, <<>>, pure_in[1].ends,
                                                ReadEndpoint),
                         client |-> SubmitAndWait(pure_in[1].chunks, pure_in[1].ends,
                                                  ReadEndpoint)])
    /\ UNCHANGED <<calls, getters, pure_in>>

NextBoth == BothReturn

SpecBoth == InitBoth /\ [][NextBoth]_vars

\* -------------------------------------- claims on the two implementations
\* C36: on every stream after a successful join the backend and the
\* standalone client either both fail the attempt or both resolve the same
\* download address.
C36_SameOutcome ==
    pure_out # None =>
        LET b == pure_out[1].backend
            c == pure_out[1].client
        IN  \/ b.status = "raise" /\ c.status = "raise"
            \/ b.status = "url" /\ c.status = "url" /\ b.url = c.url

\* ------------------------------------------- claims on the prefer-idle switch
\* thresholds below, between and above the depths of the idle / busy runs
AnyThresholds == (-1)..4 \cup {UnknownDepth, UnknownDepth + 1}

\* C37: whatever the probes returned and whatever the busy threshold, the
\* attempt order with prefer-idle enabled is the order with prefer-idle
\* disabled: the order the call produced is the one the other setting gives,
\* and for every threshold the two settings give the same order.
C37_PreferIdleChangesNothing ==
    [][\A reply \in IdleProbeReplies : RankingStep(1, reply) =>
          LET pool == endpoints[1]
              now == Append(sizes[1], SizeEntry(Len(sizes[1]) + 1, GetQueueSize(reply)))
          IN  /\ ordered'[1] = SortedEndpoints(pool, now, ~prefer_idle, busy_threshold)
              /\ \A t \in AnyThresholds :
                    SortedEndpoints(pool, now, TRUE, t) = SortedEndpoints(pool, now, FALSE, t)]_vars

\* prefer-idle on, threshold 1: a pool of three ranked in another order than
\* the configured one
C37_Witness ==
    /\ pc[1] = "join" /\ prefer_idle /\ busy_threshold = 1
    /\ Len(endpoints[1]) = 3
    /\ ordered[1] = <<3, 1, 2>>

\* ------------------------------------------------- claims on the single pass
\* C38: a call goes through its ranked order once. In every step in which it
\* issues a join it moves to a later position of the same order, the
\* positions it passed on the way were passed over in this step, each because
\* its gate was held by another call at that moment, and the position joined
\* was neither joined nor passed over before; a position once passed over
\* stays so and is never joined by this call, whether or not its gate is
\* free by then.
C38_SinglePass ==
    /\ [](\A r \in Requests :
             /\ skipped[r] \cap Range(joins[r]) = {}
             /\ \A a, b \in 1..Len(joins[r]) : a # b => joins[r][a] # joins[r][b])
    /\ [][\A r \in Requests :
             /\ (~result[r].returned /\ ~result'[r].returned) => skipped[r] \subseteq skipped'[r]
             /\ joins'[r] # joins[r] =>
                   LET pool == endpoints'[r]
                       ord == ordered'[r]
                   IN  /\ idx'[r] > idx[r]
                       /\ idx[r] # 0 => ord = ordered[r]
                       /\ joins'[r] = Append(joins[r], ord[idx'[r]])
                       /\ ord[idx'[r]] \notin skipped[r]
                       /\ \A q \in (idx[r] + 1)..(idx'[r] - 1) :
                             /\ ord[q] \in skipped'[r]
                             /\ Locked(endpoint_locks, Key(pool[ord[q]]))
                             /\ endpoint_locks[Key(pool[ord[q]])] # r]_vars

\* a call returned the failure of the pool after attempting one endpoint,
\* and the endpoint it passed over and never attempted is free
C38_Witness ==
    \E r \in Requests :
        /\ result[r].returned /\ result[r].kind = "all_failed"
        /\ Len(joins[r]) = 1
        /\ \E q \in skipped[r] :
              /\ q \notin Range(joins[r])
              /\ Key(LoadEndpoints(config)[q]) # Key(LoadEndpoints(config)[joins[r][1]])
              /\ ~Locked(endpoint_locks, Key(LoadEndpoints(config)[q]))

====
